---- MODULE Spec2Model ----
(***************************************************************************)
(* The refinement control loop of the Metaluminous engine:                 *)
(*   - the consensus policy (metaluminous/core/consensus.py), a pure       *)
(*     function of a position and its critiques;                           *)
(*   - the iteration state machine of MetaluminousEngine.process_problem   *)
(*     and _iterate_position (metaluminous/core/engine.py).                *)
(*                                                                         *)
(* Scores (logical_consistency, novelty_assessment, thresholds) are        *)
(* integers in hundredths: 70 stands for 0.7.  An average is an exact      *)
(* fraction [num, den] in lowest terms, in hundredths.  On the critique    *)
(* lists drawn here (novelty in {0.6, 0.8}, at most five critiques) the    *)
(* exact comparison against the threshold agrees with the comparison of    *)
(* the IEEE doubles the code computes.                                     *)
(***************************************************************************)
EXTENDS Integers, Sequences, FiniteSets, TLC

\* ------------------------------------------------------------------ bounds
\* Longest critique list handed to build_consensus by the unit harness.
MaxCritiques == 3
\* Largest number of testable predictions of a position.
MaxPredictions == 2
\* Largest configured settings.max_iterations.
MaxSetting == 2
\* Largest num_variations handed to generate_variations.
MaxVariations == 3

\* ------------------------------------------------ settings (config.py)
novelty_threshold == 70
min_testable_predictions == 2
\* The literal 0.7 of _check_unanimous_validity and _count_coherence_agreement.
LogicalThreshold == 70
\* The default 0.5 of _calculate_average_novelty.
NeutralNovelty == 50
\* The literal 3 of required_agreement = max(3, ...).
MinAgreement == 3

\* Optional values: None is the empty sequence, a present value v is <<v>>.
None == <<>>
Some(v) == <<v>>
Get(o) == o[1]

\* ------------------------------------------------------------ arithmetic
Max(a, b) == IF a >= b THEN a ELSE b
Min(a, b) == IF a <= b THEN a ELSE b

RECURSIVE Gcd(_, _)
Gcd(a, b) == IF b = 0 THEN a ELSE Gcd(b, a % b)

\* The fraction num/den in lowest terms (den > 0, num >= 0).
Frac(num, den) ==
    LET g == Gcd(num, den)
    IN  IF g = 0 THEN [num |-> 0, den |-> 1]
        ELSE [num |-> num \div g, den |-> den \div g]

\* f < t for a fraction f and a whole number of hundredths t.
FracLess(f, t) == f.num < t * f.den

\* f"{x:.2f}": the fraction rounded to whole hundredths.
Format2f(f) == (2 * f.num + f.den) \div (2 * f.den)

\* ------------------------------------------------------- consensus policy
\* A Critique (models/schema.py): the fields the engine and the policy read.
Critique(pid, model, lc, nov, contra) ==
    [position_id |-> pid, model |-> model, logical_consistency |-> lc,
     novelty_assessment |-> nov, contradictions_found |-> contra,
     identified_flaws |-> <<>>, suggestions |-> <<>>]

\* ConsensusBuilder._check_unanimous_validity
check_unanimous_validity_strict(critiques) ==
    IF critiques = <<>> THEN FALSE
    ELSE \A i \in 1..Len(critiques) :
            critiques[i].logical_consistency > LogicalThreshold

check_unanimous_validity(critiques) ==
    IF critiques = <<>> THEN FALSE
    ELSE \A i \in 1..Len(critiques) :
            critiques[i].logical_consistency >= LogicalThreshold

\* The present novelty_assessment values, in list order.
RECURSIVE novelty_scores(_)
novelty_scores(critiques) ==
    IF critiques = <<>> THEN <<>>
    ELSE LET c == Head(critiques)
             rest == novelty_scores(Tail(critiques))
         IN  IF c.novelty_assessment # None
             THEN <<Get(c.novelty_assessment)>> \o rest
             ELSE rest

RECURSIVE SeqSum(_)
SeqSum(s) == IF s = <<>> THEN 0 ELSE Head(s) + SeqSum(Tail(s))

\* ConsensusBuilder._calculate_average_novelty
calculate_average_novelty_none_as_zero(critiques) ==
    IF critiques = <<>> THEN Frac(NeutralNovelty, 1)
    ELSE Frac(SeqSum(novelty_scores(critiques)), Len(critiques))

calculate_average_novelty(critiques) ==
    LET scores == novelty_scores(critiques)
    IN  IF scores = <<>> THEN Frac(NeutralNovelty, 1)
        ELSE Frac(SeqSum(scores), Len(scores))

\* An agreement count with a stricter test than the validity check's.
count_coherence_agreement_above(critiques) ==
    Cardinality({i \in 1..Len(critiques) :
                    critiques[i].logical_consistency > LogicalThreshold})

\* ConsensusBuilder._count_coherence_agreement
count_coherence_agreement(critiques) ==
    Cardinality({i \in 1..Len(critiques) :
                    critiques[i].logical_consistency >= LogicalThreshold})

\* required_agreement = max(3, len(critiques) * 3 // 4)
required_agreement_no_floor(critiques) == (Len(critiques) * 3) \div 4

required_agreement(critiques) ==
    Max(MinAgreement, (Len(critiques) * 3) \div 4)

\* critical_flaws: every critique's contradictions_found, concatenated.
critical_flaws_first_only(critiques) ==
    IF critiques = <<>> THEN <<>> ELSE Head(critiques).contradictions_found

RECURSIVE critical_flaws(_)
critical_flaws(critiques) ==
    IF critiques = <<>> THEN <<>>
    ELSE Head(critiques).contradictions_found \o critical_flaws(Tail(critiques))

\* `average_novelty < settings.novelty_threshold` (line 114)
novelty_insufficient_neutral(average_novelty) ==
    FracLess(average_novelty, NeutralNovelty)

novelty_insufficient(average_novelty) ==
    FracLess(average_novelty, novelty_threshold)

\* `testable_count < settings.min_testable_predictions` (line 122)
predictions_insufficient_le(testable_count) ==
    testable_count <= min_testable_predictions

predictions_insufficient_off_by_one(testable_count) ==
    testable_count < min_testable_predictions - 1

predictions_insufficient(testable_count) ==
    testable_count < min_testable_predictions

\* A reason string: its fixed text with the formatted values it carries.
Reason(text, args) == [text |-> text, args |-> args]

\* `word in reason.lower()` for the words the tests look for.
Mentions(reason, word) ==
    CASE word = "novelty" ->
            reason.text \in {"Insufficient novelty: {:.2f} < {}",
                             "Novelty score: {:.2f}"}
      [] word = "prediction" ->
            reason.text \in {"Insufficient testable predictions: {} < {}",
                             "{} testable predictions provided"}
      [] word = "contradiction" ->
            reason.text \in {"Critical contradictions found: {}"}
      [] OTHER -> FALSE

\* ConsensusBuilder._make_decision: <<decision, reasons>>.
make_decision_revise_first(unanimous_validity, average_novelty, testable_count, coherence_agreement, critiques) ==
    LET n  == Len(critiques)
        r1 == <<Reason("All models agree on logical validity", <<>>)>>
        r2 == r1 \o <<Reason("Novelty score: {:.2f}", <<Format2f(average_novelty)>>)>>
        r3 == r2 \o <<Reason("{} testable predictions provided", <<testable_count>>)>>
        r4 == r3 \o <<Reason("Coherence agreement: {}/{} models",
                             <<coherence_agreement, n>>)>>
    IN  IF coherence_agreement < required_agreement(critiques)
        THEN <<"REVISE", <<Reason("Insufficient coherence agreement: {}/{} models",
                                  <<coherence_agreement, n>>)>> >>
        ELSE IF critical_flaws(critiques) # <<>>
        THEN <<"REVISE", <<Reason("Critical contradictions found: {}",
                                  <<Len(critical_flaws(critiques))>>)>> >>
        ELSE IF ~unanimous_validity
        THEN <<"REJECT", <<Reason("Logical flaw detected by one or more models", <<>>)>> >>
        ELSE IF novelty_insufficient(average_novelty)
        THEN <<"REJECT", r1 \o <<Reason("Insufficient novelty: {:.2f} < {}",
                                 <<Format2f(average_novelty), novelty_threshold>>)>> >>
        ELSE IF predictions_insufficient(testable_count)
        THEN <<"REJECT", r2 \o <<Reason("Insufficient testable predictions: {} < {}",
                                 <<testable_count, min_testable_predictions>>)>> >>
        ELSE <<"ACCEPT", r4 \o <<Reason("All criteria met for acceptance", <<>>)>> >>

\* A policy that reports only the reason of the deciding check.
make_decision_own_reason_only(unanimous_validity, average_novelty, testable_count, coherence_agreement, critiques) ==
    LET n == Len(critiques)
    IN  IF ~unanimous_validity
        THEN <<"REJECT", <<Reason("Logical flaw detected by one or more models", <<>>)>> >>
        ELSE IF novelty_insufficient(average_novelty)
        THEN <<"REJECT", <<Reason("Insufficient novelty: {:.2f} < {}",
                                  <<Format2f(average_novelty), novelty_threshold>>)>> >>
        ELSE IF predictions_insufficient(testable_count)
        THEN <<"REJECT", <<Reason("Insufficient testable predictions: {} < {}",
                                  <<testable_count, min_testable_predictions>>)>> >>
        ELSE IF coherence_agreement < required_agreement(critiques)
        THEN <<"REVISE", <<Reason("Insufficient coherence agreement: {}/{} models",
                                  <<coherence_agreement, n>>)>> >>
        ELSE IF critical_flaws(critiques) # <<>>
        THEN <<"REVISE", <<Reason("Critical contradictions found: {}",
                                  <<Len(critical_flaws(critiques))>>)>> >>
        ELSE <<"ACCEPT", <<Reason("All criteria met for acceptance", <<>>)>> >>

make_decision(unanimous_validity, average_novelty, testable_count, coherence_agreement, critiques) ==
    LET n  == Len(critiques)
        r1 == <<Reason("All models agree on logical validity", <<>>)>>
        r2 == r1 \o <<Reason("Novelty score: {:.2f}", <<Format2f(average_novelty)>>)>>
        r3 == r2 \o <<Reason("{} testable predictions provided", <<testable_count>>)>>
        r4 == r3 \o <<Reason("Coherence agreement: {}/{} models",
                             <<coherence_agreement, n>>)>>
    IN  IF ~unanimous_validity
        THEN <<"REJECT", <<Reason("Logical flaw detected by one or more models", <<>>)>> >>
        ELSE IF novelty_insufficient(average_novelty)
        THEN <<"REJECT", r1 \o <<Reason("Insufficient novelty: {:.2f} < {}",
                                 <<Format2f(average_novelty), novelty_threshold>>)>> >>
        ELSE IF predictions_insufficient(testable_count)
        THEN <<"REJECT", r2 \o <<Reason("Insufficient testable predictions: {} < {}",
                                 <<testable_count, min_testable_predictions>>)>> >>
        ELSE IF coherence_agreement < required_agreement(critiques)
        THEN <<"REVISE", r3 \o <<Reason("Insufficient coherence agreement: {}/{} models",
                                 <<coherence_agreement, n>>)>> >>
        ELSE IF critical_flaws(critiques) # <<>>
        THEN <<"REVISE", r4 \o <<Reason("Critical contradictions found: {}",
                                 <<Len(critical_flaws(critiques))>>)>> >>
        ELSE <<"ACCEPT", r4 \o <<Reason("All criteria met for acceptance", <<>>)>> >>

\* ConsensusBuilder.build_consensus
build_consensus(position, critiques) ==
    LET unanimous_validity  == check_unanimous_validity(critiques)
        average_novelty     == calculate_average_novelty(critiques)
        testable_count      == Len(position.testable_predictions)
        coherence_agreement == count_coherence_agreement(critiques)
        d == make_decision(unanimous_validity, average_novelty, testable_count,
                           coherence_agreement, critiques)
    IN  [position_id |-> IF position.id # "" THEN position.id ELSE "unknown",
         unanimous_validity |-> unanimous_validity,
         average_novelty |-> average_novelty,
         testable_predictions_count |-> testable_count,
         coherence_agreement |-> coherence_agreement,
         decision |-> d[1],
         reasons |-> d[2],
         participating_models |-> {critiques[i].model : i \in 1..Len(critiques)}]

\* ------------------------------------------------------------------ state
VARIABLES
    test_position,   \* harness: the position handed to build_consensus
    test_critiques,  \* harness: the critique list handed to build_consensus
    consensus,       \* harness: the ConsensusResult returned, None before the call
    pc,              \* engine: where process_problem is suspended
    max_iterations,  \* engine: settings.max_iterations
    use_cloud_apis,  \* engine: the use_cloud_apis argument
    gen_request,     \* engine: the request in flight to the Generator, or None
    session,         \* engine: the DebateSession, None before it is created
    evaluators,      \* engine: the tasks of run_tribunal's gather, by index
    sages,           \* engine: the tasks of refine_position's gather, by index
    failure,         \* engine: the failure of the last awaited call, or None
    gen_calls,       \* history: number of generate_position calls made
    decisions,       \* history: the decision of every build_consensus call
    v_pc,            \* variations: where generate_variations is suspended
    num_variations,  \* variations: the num_variations argument
    v_requests,      \* variations: the requests issued, by index
    v_tasks,         \* variations: the gathered generate_position tasks
    v_order,         \* history: the task indices in order of completion
    v_raised_at,     \* history: the length of v_order when the gather raised
    v_positions,     \* variations: the list returned, None before that
    x_pc,            \* exploration: where explore_problem_space is
    x_index,         \* exploration: the loop's variant (1-based), 0 before
    x_panels,        \* exploration: the state of each variant's panel run
    x_sessions,      \* exploration: the sessions list of the loop
    x_result,        \* exploration: the list returned, None before that
    c_pc,            \* client: where the client and its generate call are
    c_kind,          \* client: which LLMClient subclass it is
    c_api_key,       \* client: whether self.api_key is set
    c_warnings,      \* history: warnings logged by the constructor
    c_calls,         \* history: generate calls made on the client
    c_log,           \* history: the outcome of each attempt of this call
    c_requests,      \* history: requests sent to the backend
    c_observed,      \* history: what the caller of this call got, in order
    k_lc,            \* schema harness: the logical_consistency passed
    k_nov,           \* schema harness: the novelty_assessment passed
    k_result,        \* schema harness: Critique(...)'s outcome, None before
    w_pc,            \* web: where the POST /explore handler is
    w_num_variations, \* web: the num_variations query parameter
    w_engine_calls,  \* history: calls of engine.explore_problem_space
    w_status,        \* web: the response's status code, None before
    r_request,       \* refinement harness: the original request
    r_session,       \* refinement harness: the session being revised
    r_refined,       \* refinement harness: the refined request, None before
    g_response,      \* parser harness: the lines of the Generator's response
    g_position,      \* parser harness: the position parsed, None before
    s_text,          \* score harness: the tokens of an evaluator's response
    s_result         \* score harness: _check_logic's outcome, None before

harness_vars == <<test_position, test_critiques, consensus>>
engine_vars == <<pc, max_iterations, use_cloud_apis, gen_request, session,
                 evaluators, sages, failure, gen_calls, decisions>>
variation_vars == <<v_pc, num_variations, v_requests, v_tasks, v_order,
                    v_raised_at, v_positions>>
vars == <<test_position, test_critiques, consensus, pc, max_iterations,
          use_cloud_apis, gen_request, session, evaluators, sages, failure,
          gen_calls, decisions, v_pc, num_variations, v_requests, v_tasks,
          v_order, v_raised_at, v_positions, x_pc, x_index, x_panels,
          x_sessions, x_result, c_pc, c_kind, c_api_key, c_warnings,
          c_calls, c_log, c_requests, c_observed, k_lc, k_nov, k_result,
          w_pc, w_num_variations, w_engine_calls, w_status, r_request,
          r_session, r_refined, g_response, g_position, s_text, s_result>>
explore_vars == <<x_pc, x_index, x_panels, x_sessions, x_result>>
client_vars == <<c_pc, c_kind, c_api_key, c_warnings, c_calls, c_log,
                 c_requests, c_observed>>
schema_vars == <<k_lc, k_nov, k_result>>
web_vars == <<w_pc, w_num_variations, w_engine_calls, w_status>>
refine_vars == <<r_request, r_session, r_refined>>
parser_vars == <<g_response, g_position>>
score_vars == <<s_text, s_result>>
text_vars == <<parser_vars, score_vars>>

\* What the actions of one part leave alone: the variables of the others.
outside_core == <<client_vars, schema_vars, web_vars, refine_vars, text_vars>>
outside_harness == <<engine_vars, variation_vars, explore_vars, outside_core>>
outside_engine == <<harness_vars, variation_vars, explore_vars, outside_core>>
outside_variations == <<harness_vars, engine_vars, explore_vars, outside_core>>
outside_explore == <<harness_vars, engine_vars, outside_core>>
core_vars == <<harness_vars, engine_vars, variation_vars, explore_vars>>
outside_client == <<core_vars, schema_vars, web_vars, refine_vars, text_vars>>
outside_schema == <<core_vars, client_vars, web_vars, refine_vars, text_vars>>
outside_web == <<core_vars, client_vars, schema_vars, refine_vars, text_vars>>
outside_refine == <<core_vars, client_vars, schema_vars, web_vars, text_vars>>
outside_parser == <<core_vars, client_vars, schema_vars, web_vars, refine_vars,
                    score_vars>>
outside_score == <<core_vars, client_vars, schema_vars, web_vars, refine_vars,
                   parser_vars>>

\* ---------------------------------------------- build_consensus harness
\* The values the harness draws critique fields from.
TestLogicScores == {60, 70, 90}
TestNoveltyScores == {None, Some(60), Some(80)}
TestContradictions == {<<>>, <<"Contradiction 1">>}

TestCritiqueSet ==
    {Critique("test-pos-1", "model1", lc, nov, contra) :
        lc \in TestLogicScores, nov \in TestNoveltyScores,
        contra \in TestContradictions}

\* Lists of n predictions.
PredictionList(n) == [i \in 1..n |-> "Pred"]

\* A PhilosophicalPosition (models/schema.py); id "" is the unassigned id.
Position(id, n) ==
    [id |-> id, position |-> "Test position statement",
     testable_predictions |-> PredictionList(n)]

\* The engine before process_problem is called.
EngineIdle ==
    /\ pc = "idle"
    /\ use_cloud_apis = FALSE
    /\ gen_request = None
    /\ session = None
    /\ evaluators = <<>>
    /\ sages = <<>>
    /\ failure = None
    /\ gen_calls = 0
    /\ decisions = <<>>

HarnessIdle ==
    /\ test_position = Position("test-pos-1", 0)
    /\ test_critiques = <<>>
    /\ consensus = None

\* explore_problem_space before it is called.
ExploreIdle ==
    /\ x_pc = "idle"
    /\ x_index = 0
    /\ x_panels = <<>>
    /\ x_sessions = <<>>
    /\ x_result = None

\* No client built yet.
ClientIdle ==
    /\ c_pc = "none"
    /\ c_kind = "ollama"
    /\ c_api_key = FALSE
    /\ c_warnings = 0
    /\ c_calls = 0
    /\ c_log = <<>>
    /\ c_requests = 0
    /\ c_observed = <<>>

\* No Critique under construction.
SchemaIdle ==
    /\ k_lc = 0
    /\ k_nov = None
    /\ k_result = None

\* No request at POST /explore.
WebIdle ==
    /\ w_pc = "idle"
    /\ w_num_variations = 0
    /\ w_engine_calls = 0
    /\ w_status = None

\* No request under refinement.
RefineIdle ==
    /\ r_request = None
    /\ r_session = None
    /\ r_refined = None

\* No response under parsing, no evaluator response under scoring.
TextIdle ==
    /\ g_response = <<>>
    /\ g_position = None
    /\ s_text = <<>>
    /\ s_result = None

OutsideCoreIdle ==
    ClientIdle /\ SchemaIdle /\ WebIdle /\ RefineIdle /\ TextIdle

\* generate_variations before it is called.
VariationsIdle ==
    /\ v_pc = "idle"
    /\ num_variations = 0
    /\ v_requests = <<>>
    /\ v_tasks = <<>>
    /\ v_order = <<>>
    /\ v_raised_at = None
    /\ v_positions = None

HarnessInit ==
    /\ test_position \in {Position("test-pos-1", n) : n \in 0..MaxPredictions}
    /\ test_critiques = <<>>
    /\ consensus = None
    /\ EngineIdle
    /\ max_iterations = 0
    /\ VariationsIdle
    /\ ExploreIdle
    /\ OutsideCoreIdle

\* The test appends one more critique to its list.
AppendCritique ==
    /\ consensus = None
    /\ Len(test_critiques) < MaxCritiques
    /\ \E c \in TestCritiqueSet : test_critiques' = Append(test_critiques, c)
    /\ UNCHANGED <<test_position, consensus>>
    /\ UNCHANGED outside_harness

\* The test calls build_consensus(position, critiques).
BuildConsensus ==
    /\ consensus = None
    /\ consensus' = Some(build_consensus(test_position, test_critiques))
    /\ UNCHANGED <<test_position, test_critiques>>
    /\ UNCHANGED outside_harness

HarnessNext == AppendCritique \/ BuildConsensus

ConsensusSpec == HarnessInit /\ [][HarnessNext]_vars

\* --------------------------------------------------- engine (engine.py)
\* str(uuid.uuid4()): one session is followed, so one id.
session_id == "sid"

\* The request process_problem is called with (GenerationRequest defaults;
\* temperature in thousandths).
original_request ==
    [problem |-> <<"Problem">>, domains |-> <<>>, constraints |-> <<>>,
     existing_solutions |-> <<>>, temperature |-> 700]

\* f"{session_id}-pos-{iteration}"
PositionId_first(sid, iteration) == sid \o "-pos-0"

PositionId(sid, iteration) == sid \o "-pos-" \o ToString(iteration)

\* The four evaluators run_tribunal gathers, by the settings name of the
\* model each one reports (tribunal.py 41-46).
TribunalModels ==
    <<"ollama_primary_model", "ollama_critic_model",
      "ollama_primary_model", "ollama_creative_model">>

\* The four sages refine_position gathers, by the model each one reports
\* (four_sages.py 48-54).
SageModels == <<"anthropic_model", "openai_model", "google_model", "gpt-4o">>

\* The contents a critique returned to the engine may carry.  The engine
\* reads them only through build_consensus and _summarize_critiques, so the
\* panels are taken at their interface (a list of well-formed critiques)
\* and the contents are drawn from these sets.
LocalContents ==
    {[lc |-> 90, nov |-> Some(80), contra |-> <<>>],
     [lc |-> 90, nov |-> Some(80), contra |-> <<"Contradiction 1">>]}

CloudContents ==
    {[lc |-> 90, nov |-> Some(80), contra |-> <<>>]}

\* The tasks a gather has just created: none has finished.
Gathered(n) == [i \in 1..n |-> "pending"]

\* await asyncio.gather(...) of run_tribunal (no return_exceptions): it
\* returns when every task has returned, and raises as soon as one has
\* raised, whatever the others are doing.
gather_returns_first(tasks) ==
    /\ \E i \in 1..Len(tasks) : tasks[i] = "done"
    /\ \A i \in 1..Len(tasks) : tasks[i] # "failed"

gather_returns(tasks) == \A i \in 1..Len(tasks) : tasks[i] = "done"

gather_raises(tasks) == \E i \in 1..Len(tasks) : tasks[i] = "failed"

\* await asyncio.gather(..., return_exceptions=True) of refine_position: it
\* returns when every task has returned or raised.
gather_settled_first(tasks) ==
    tasks # <<>> /\ \E i \in 1..Len(tasks) : tasks[i] # "pending"

gather_settled(tasks) ==
    tasks # <<>> /\ \A i \in 1..Len(tasks) : tasks[i] # "pending"

\* The position of _find_contradictions in the gather, the one evaluator
\* that fills contradictions_found (tribunal.py 43, 95).
ContradictionFinder == 2

\* run_tribunal's result: one critique per gathered evaluator, in order.
TribunalOutputs(pid) ==
    {[i \in 1..Len(TribunalModels) |->
          Critique(pid, TribunalModels[i], f[i].lc, f[i].nov, f[i].contra)] :
        f \in {g \in [1..Len(TribunalModels) -> LocalContents] :
                  \A i \in 1..Len(TribunalModels) :
                     g[i].contra # <<>> => i = ContradictionFinder}}

\* refine_position, lines 56-65: the critiques of the sages that did not
\* fail, in sage order; outcomes[i] is None for a sage that raised.
RECURSIVE valid_critiques_until_failure(_, _, _)
valid_critiques_until_failure(pid, outcomes, i) ==
    IF i > Len(outcomes) \/ outcomes[i] = None THEN <<>>
    ELSE LET o == Get(outcomes[i])
         IN  <<Critique(pid, SageModels[i], o.lc, o.nov, o.contra)>>
             \o valid_critiques_until_failure(pid, outcomes, i + 1)

RECURSIVE valid_critiques(_, _, _)
valid_critiques(pid, outcomes, i) ==
    IF i > Len(outcomes) THEN <<>>
    ELSE (IF outcomes[i] = None THEN <<>>
          ELSE LET o == Get(outcomes[i])
               IN  <<Critique(pid, SageModels[i], o.lc, o.nov, o.contra)>>)
         \o valid_critiques(pid, outcomes, i + 1)

\* refine_position's result once its gather has settled with the task
\* states `tasks`: a failed sage's outcome is its exception (None here).
CouncilOutputs(pid, tasks) ==
    {valid_critiques(pid, outcomes, 1) :
        outcomes \in {o \in [1..Len(SageModels) ->
                                {None} \cup {Some(c) : c \in CloudContents}] :
                         \A i \in 1..Len(SageModels) :
                            (o[i] = None) <=> (tasks[i] = "failed")}}

\* The positions generate_position may return: id unassigned, any number
\* of parsed predictions.
GeneratedPositions == {Position("", n) : n \in 0..MaxPredictions}

\* A slice that keeps the whole list.
Take_all(s, n) == s

\* The statement the Generator's k-th response is parsed into: every
\* response has a statement of its own.
Statement(k) == "Position statement " \o ToString(k)

\* s[1..n] for a list s (Python s[:n]).
Take(s, n) == SubSeq(s, 1, Min(n, Len(s)))

Bullets(items) == [i \in 1..Len(items) |-> "  * " \o items[i]]

\* MetaluminousEngine._summarize_critiques: the summary's lines.
RECURSIVE summary_lines(_)
summary_lines(critiques) ==
    IF critiques = <<>> THEN <<>>
    ELSE LET c == Head(critiques)
             flaws == IF c.identified_flaws # <<>>
                      THEN <<"- " \o c.model \o ": "
                               \o ToString(Len(c.identified_flaws))
                               \o " flaws identified">>
                           \o Bullets(Take(c.identified_flaws, 3))
                      ELSE <<>>
             contra == IF c.contradictions_found # <<>>
                       THEN <<"- " \o c.model \o ": Contradictions found">>
                            \o Bullets(Take(c.contradictions_found, 2))
                       ELSE <<>>
             sugg == IF c.suggestions # <<>>
                     THEN <<"- " \o c.model \o ": Suggestions">>
                          \o Bullets(Take(c.suggestions, 2))
                     ELSE <<>>
         IN  flaws \o contra \o sugg \o summary_lines(Tail(critiques))

summarize_critiques(critiques) ==
    IF summary_lines(critiques) # <<>> THEN summary_lines(critiques)
    ELSE <<"No critiques available">>

\* k-fold application of the factor 0.9 to a temperature in thousandths.
RECURSIVE Cooled(_, _)
Cooled(temperature, k) ==
    IF k = 0 THEN temperature ELSE Cooled((temperature * 9) \div 10, k - 1)

RECURSIVE Repeated(_, _)
Repeated(items, k) == IF k = 0 THEN <<>> ELSE items \o Repeated(items, k - 1)

\* A refined request built on the previous refined request instead of the
\* original: reduction and constraints pile up with every revision.
refined_request_compounding(original, s) ==
    [problem |-> original.problem
                 \o <<"", "PREVIOUS ATTEMPT:", s.position.position, "",
                      "CRITIQUES TO ADDRESS:">>
                 \o summarize_critiques(s.critiques),
     domains |-> original.domains,
     constraints |-> original.constraints
                     \o Repeated(<<"Address all critiques from previous iteration",
                                   "Maintain strengths while fixing weaknesses">>,
                                 s.iterations),
     existing_solutions |-> original.existing_solutions,
     temperature |-> Cooled(original.temperature, s.iterations)]

\* The refined GenerationRequest of _iterate_position (lines 121-130).
refined_request(original, s) ==
    [problem |-> original.problem
                 \o <<"", "PREVIOUS ATTEMPT:", s.position.position, "",
                      "CRITIQUES TO ADDRESS:">>
                 \o summarize_critiques(s.critiques),
     domains |-> original.domains,
     constraints |-> original.constraints
                     \o <<"Address all critiques from previous iteration",
                          "Maintain strengths while fixing weaknesses">>,
     existing_solutions |-> original.existing_solutions,
     temperature |-> (original.temperature * 9) \div 10]

\* DebateSession(id=..., position=..., max_iterations=settings.max_iterations)
DebateSession(id, position, maxit) ==
    [id |-> id, position |-> position, critiques |-> <<>>, iterations |-> 0,
     max_iterations |-> maxit, converged |-> FALSE, final_consensus |-> None]

\* The test of lines 95 and 161: revise once more?
should_iterate_le(decision, s) ==
    decision = "REVISE" /\ s.iterations <= s.max_iterations

should_iterate_not_accept(decision, s) ==
    decision # "ACCEPT" /\ s.iterations < s.max_iterations

should_iterate(decision, s) ==
    decision = "REVISE" /\ s.iterations < s.max_iterations

\* The head of _iterate_position up to its await of the Generator
\* (lines 115-133).
EnterIteratePosition(s) ==
    LET s1 == [s EXCEPT !.iterations = s.iterations + 1]
    IN  /\ session' = Some(s1)
        /\ gen_request' = Some(refined_request(original_request, s1))
        /\ gen_calls' = gen_calls + 1
        /\ pc' = "I_generate"

\* The branch with the consensus built on the position of the first cycle
\* (the local variable of process_problem) instead of the session's.
ConsensusAndBranch_first_position(s) ==
    LET first == [s.position EXCEPT !.id = PositionId(s.id, 0)]
        c  == build_consensus(first, s.critiques)
        s1 == [s EXCEPT !.final_consensus = Some(c)]
    IN  /\ decisions' = Append(decisions, c.decision)
        /\ IF should_iterate(c.decision, s1)
           THEN EnterIteratePosition(s1)
           ELSE /\ session' = Some([s1 EXCEPT !.converged = TRUE])
                /\ pc' = "returned"
                /\ UNCHANGED <<gen_request, gen_calls>>

\* The branch with the flag set as soon as the consensus is stored, before
\* the decision to revise is taken.
ConsensusAndBranch_flags_first(s) ==
    LET c  == build_consensus(s.position, s.critiques)
        s1 == [s EXCEPT !.final_consensus = Some(c), !.converged = TRUE]
    IN  /\ decisions' = Append(decisions, c.decision)
        /\ IF should_iterate(c.decision, s1)
           THEN EnterIteratePosition(s1)
           ELSE /\ session' = Some(s1)
                /\ pc' = "returned"
                /\ UNCHANGED <<gen_request, gen_calls>>

\* Consensus and the branch on it (lines 86-102 and 153-165), run once the
\* critiques of the cycle are in s.critiques.
ConsensusAndBranch(s) ==
    LET c  == build_consensus(s.position, s.critiques)
        s1 == [s EXCEPT !.final_consensus = Some(c)]
    IN  /\ decisions' = Append(decisions, c.decision)
        /\ IF should_iterate(c.decision, s1)
           THEN EnterIteratePosition(s1)
           ELSE /\ session' = Some([s1 EXCEPT !.converged = TRUE])
                /\ pc' = "returned"
                /\ UNCHANGED <<gen_request, gen_calls>>

\* session.critiques.extend(...) (lines 70, 81, 149) and the assignment
\* session.critiques = new_local_critiques (line 141).
extend_critiques(old, new) == old \o new

replace_critiques_appends(old, new) == old \o new

replace_critiques(old, new) == new

EngineInit ==
    /\ EngineIdle
    /\ max_iterations \in 0..MaxSetting
    /\ HarnessIdle
    /\ VariationsIdle
    /\ ExploreIdle
    /\ OutsideCoreIdle

\* process_problem is called and awaits generate_position(request).
ProcessProblem ==
    /\ pc = "idle"
    /\ \E cloud \in BOOLEAN : use_cloud_apis' = cloud
    /\ gen_request' = Some(original_request)
    /\ gen_calls' = gen_calls + 1
    /\ pc' = "P_generate"
    /\ UNCHANGED <<max_iterations, session, evaluators, sages, failure, decisions>>
    /\ UNCHANGED outside_engine

\* Lines 57-69: the position arrives, the session is created, run_tribunal
\* is called and gathers its four evaluators.
P_GenerateReturns ==
    /\ pc = "P_generate"
    /\ \E p \in GeneratedPositions :
          LET position == [p EXCEPT !.id = PositionId(session_id, 0),
                                    !.position = Statement(gen_calls)]
          IN  session' = Some(DebateSession(session_id, position, max_iterations))
    /\ gen_request' = None
    /\ evaluators' = Gathered(Len(TribunalModels))
    /\ failure' = None
    /\ pc' = "P_tribunal"
    /\ UNCHANGED <<max_iterations, use_cloud_apis, sages, gen_calls, decisions>>
    /\ UNCHANGED outside_engine

\* An exception leaves process_problem: nothing is returned.
Raise_returns_partial(e) ==
    /\ pc' = "returned"
    /\ failure' = Some(e)
    /\ gen_request' = None
    /\ UNCHANGED <<max_iterations, use_cloud_apis, session, evaluators, sages,
                   gen_calls, decisions>>
    /\ UNCHANGED outside_engine

Raise(e) ==
    /\ pc' = "raised"
    /\ failure' = Some(e)
    /\ gen_request' = None
    /\ UNCHANGED <<max_iterations, use_cloud_apis, session, evaluators, sages,
                   gen_calls, decisions>>
    /\ UNCHANGED outside_engine

\* Line 57: generate_position raises.
P_GenerateFails ==
    /\ pc = "P_generate"
    /\ Raise("generator")

\* One evaluator of the gather in run_tribunal returns its critique
\* (tribunal.py 51-145).
EvaluatorReturns ==
    /\ pc \in {"P_tribunal", "I_tribunal"}
    /\ \E i \in 1..Len(evaluators) :
          /\ evaluators[i] = "pending"
          /\ evaluators' = [evaluators EXCEPT ![i] = "done"]
    /\ UNCHANGED <<pc, max_iterations, use_cloud_apis, gen_request, session,
                   sages, failure, gen_calls, decisions>>
    /\ UNCHANGED outside_engine

\* One evaluator raises (its backend call fails, llm_clients.py 73-75).
EvaluatorFails ==
    /\ pc \in {"P_tribunal", "I_tribunal"}
    /\ \E i \in 1..Len(evaluators) :
          /\ evaluators[i] = "pending"
          /\ evaluators' = [evaluators EXCEPT ![i] = "failed"]
    /\ UNCHANGED <<pc, max_iterations, use_cloud_apis, gen_request, session,
                   sages, failure, gen_calls, decisions>>
    /\ UNCHANGED outside_engine

\* The first cycle entering the cloud pass whatever use_cloud_apis says.
P_TribunalReturns_always_cloud ==
    /\ pc = "P_tribunal"
    /\ gather_returns(evaluators)
    /\ \E local \in TribunalOutputs(Get(session).position.id) :
          session' = Some([Get(session) EXCEPT
                              !.critiques = extend_critiques(@, local)])
    /\ pc' = "P_cloud"
    /\ sages' = <<>>
    /\ failure' = None
    /\ UNCHANGED <<gen_request, gen_calls, decisions>>
    /\ UNCHANGED <<max_iterations, use_cloud_apis, evaluators>>
    /\ UNCHANGED outside_engine

\* Lines 69-92: run_tribunal returns the local critiques; with the cloud
\* pass refine_position is called, without it the consensus is built.
P_TribunalReturns ==
    /\ pc = "P_tribunal"
    /\ gather_returns(evaluators)
    /\ \E local \in TribunalOutputs(Get(session).position.id) :
          LET s == [Get(session) EXCEPT
                       !.critiques = extend_critiques(@, local)]
          IN  IF use_cloud_apis
              THEN /\ session' = Some(s)
                   /\ pc' = "P_cloud"
                   /\ UNCHANGED <<gen_request, gen_calls, decisions>>
              ELSE ConsensusAndBranch(s)
    /\ sages' = <<>>
    /\ failure' = None
    /\ UNCHANGED <<max_iterations, use_cloud_apis, evaluators>>
    /\ UNCHANGED outside_engine

\* Line 69: run_tribunal raises (its gather propagates an evaluator's error).
P_TribunalFails ==
    /\ pc = "P_tribunal"
    /\ gather_raises(evaluators)
    /\ Raise("tribunal")

\* four_sages.py 48-54: refine_position gathers its four sages.
CouncilGather ==
    /\ pc \in {"P_cloud", "I_cloud"}
    /\ sages = <<>>
    /\ sages' = Gathered(Len(SageModels))
    /\ UNCHANGED <<pc, max_iterations, use_cloud_apis, gen_request, session,
                   evaluators, failure, gen_calls, decisions>>
    /\ UNCHANGED outside_engine

\* One sage returns its critique (four_sages.py 67-224).
SageReturns ==
    /\ pc \in {"P_cloud", "I_cloud"}
    /\ \E i \in 1..Len(sages) :
          /\ sages[i] = "pending"
          /\ sages' = [sages EXCEPT ![i] = "done"]
    /\ UNCHANGED <<pc, max_iterations, use_cloud_apis, gen_request, session,
                   evaluators, failure, gen_calls, decisions>>
    /\ UNCHANGED outside_engine

\* One sage raises (no API key, or its backend call fails).
SageFails ==
    /\ pc \in {"P_cloud", "I_cloud"}
    /\ \E i \in 1..Len(sages) :
          /\ sages[i] = "pending"
          /\ sages' = [sages EXCEPT ![i] = "failed"]
    /\ UNCHANGED <<pc, max_iterations, use_cloud_apis, gen_request, session,
                   evaluators, failure, gen_calls, decisions>>
    /\ UNCHANGED outside_engine

\* Lines 77-92: refine_position returns the cloud critiques.
P_CloudReturns ==
    /\ pc = "P_cloud"
    /\ gather_settled(sages)
    /\ \E cloud \in CouncilOutputs(Get(session).position.id, sages) :
          ConsensusAndBranch([Get(session) EXCEPT
                                 !.critiques = extend_critiques(@, cloud)])
    /\ failure' = None
    /\ UNCHANGED <<max_iterations, use_cloud_apis, evaluators, sages>>
    /\ UNCHANGED outside_engine

\* Lines 82-92: the call of refine_position raises (not through a sage:
\* those are caught inside), the except clause logs and goes on.
P_CloudFails_propagates ==
    /\ pc = "P_cloud"
    /\ sages = <<>>
    /\ Raise("council")

P_CloudFails ==
    /\ pc = "P_cloud"
    /\ sages = <<>>
    /\ ConsensusAndBranch(Get(session))
    /\ failure' = Some("council")
    /\ UNCHANGED <<max_iterations, use_cloud_apis, evaluators, sages>>
    /\ UNCHANGED outside_engine

\* Lines 133-140: the revised position arrives and replaces the session's;
\* run_tribunal is called on it.
I_GenerateReturns ==
    /\ pc = "I_generate"
    /\ \E p \in GeneratedPositions :
          LET s == Get(session)
              revised == [p EXCEPT !.id = PositionId(s.id, s.iterations),
                                   !.position = Statement(gen_calls)]
          IN  session' = Some([s EXCEPT !.position = revised])
    /\ gen_request' = None
    /\ evaluators' = Gathered(Len(TribunalModels))
    /\ failure' = None
    /\ pc' = "I_tribunal"
    /\ UNCHANGED <<max_iterations, use_cloud_apis, sages, gen_calls, decisions>>
    /\ UNCHANGED outside_engine

\* Line 133: generate_position raises.
I_GenerateFails ==
    /\ pc = "I_generate"
    /\ Raise("generator")

\* Lines 140-165: the new local critiques replace the old list.
I_TribunalReturns ==
    /\ pc = "I_tribunal"
    /\ gather_returns(evaluators)
    /\ \E local \in TribunalOutputs(Get(session).position.id) :
          LET s == [Get(session) EXCEPT
                       !.critiques = replace_critiques(@, local)]
          IN  IF use_cloud_apis
              THEN /\ session' = Some(s)
                   /\ pc' = "I_cloud"
                   /\ UNCHANGED <<gen_request, gen_calls, decisions>>
              ELSE ConsensusAndBranch(s)
    /\ sages' = <<>>
    /\ failure' = None
    /\ UNCHANGED <<max_iterations, use_cloud_apis, evaluators>>
    /\ UNCHANGED outside_engine

\* Line 140: run_tribunal raises.
I_TribunalFails ==
    /\ pc = "I_tribunal"
    /\ gather_raises(evaluators)
    /\ Raise("tribunal")

\* Lines 145-165: the new cloud critiques arrive.
I_CloudReturns ==
    /\ pc = "I_cloud"
    /\ gather_settled(sages)
    /\ \E cloud \in CouncilOutputs(Get(session).position.id, sages) :
          ConsensusAndBranch([Get(session) EXCEPT
                                 !.critiques = extend_critiques(@, cloud)])
    /\ failure' = None
    /\ UNCHANGED <<max_iterations, use_cloud_apis, evaluators, sages>>
    /\ UNCHANGED outside_engine

\* Lines 150-165: the call of refine_position raises, the except clause
\* logs and goes on.
I_CloudFails ==
    /\ pc = "I_cloud"
    /\ sages = <<>>
    /\ ConsensusAndBranch(Get(session))
    /\ failure' = Some("council")
    /\ UNCHANGED <<max_iterations, use_cloud_apis, evaluators, sages>>
    /\ UNCHANGED outside_engine

Next ==
    \/ ProcessProblem
    \/ P_GenerateReturns
    \/ P_GenerateFails
    \/ EvaluatorReturns
    \/ EvaluatorFails
    \/ P_TribunalReturns
    \/ P_TribunalFails
    \/ CouncilGather
    \/ SageReturns
    \/ SageFails
    \/ P_CloudReturns
    \/ P_CloudFails
    \/ I_GenerateReturns
    \/ I_GenerateFails
    \/ I_TribunalReturns
    \/ I_TribunalFails
    \/ I_CloudReturns
    \/ I_CloudFails

Init == EngineInit

Spec == Init /\ [][Next]_vars

\* ------------------------------------- generate_variations (generation.py)
\* The base request handed to generate_variations; temperatures of this
\* part are exact fractions of 1 (0.7 is 7/10).
base_request ==
    [problem |-> <<"Problem">>, constraints |-> <<>>,
     existing_solutions |-> <<>>, temperature |-> Frac(7, 10)]

\* Line 155: 0.5 + (i / num_variations) * 1.0, for i in range(num_variations).
varied_temperature_one_based(i, n) == Frac(n + 2 * (i + 1), 2 * n)

varied_temperature(i, n) == Frac(n + 2 * i, 2 * n)

\* Lines 152-157: the requests of the loop, request i at index i + 1.
varied_requests(base, n) ==
    [k \in 1..n |-> [base EXCEPT !.temperature = varied_temperature(k - 1, n)]]

\* _parse_generation_response: the position made from a response with
\* npred parsed predictions; it records the request's temperature.
parse_generation_response(request, npred) ==
    [id |-> "", problem |-> request.problem,
     position |-> "Test position statement",
     testable_predictions |-> PredictionList(npred),
     metadata |-> [temperature |-> request.temperature,
                   constraints |-> request.constraints]]

\* A gathered generate_position task: its state and, once done, its result.
Task(status, result) == [status |-> status, result |-> result]

\* The value of await asyncio.gather(*tasks): the results by task index.
gathered_as_completed(tasks, order) ==
    [k \in 1..Len(order) |-> Get(tasks[order[k]].result)]

gathered(tasks, order) == [k \in 1..Len(tasks) |-> Get(tasks[k].result)]

\* generate_variations(base_request, n) is called: the loop builds the n
\* requests and their coroutines, and gather starts them all.
GenerateVariations ==
    /\ v_pc = "idle"
    /\ \E n \in 0..MaxVariations :
          /\ num_variations' = n
          /\ v_requests' = varied_requests(base_request, n)
          /\ v_tasks' = [k \in 1..n |-> Task("pending", None)]
    /\ v_pc' = "gathering"
    /\ UNCHANGED <<v_order, v_raised_at, v_positions>>
    /\ UNCHANGED outside_variations

\* One generate_position task returns its position; a task the gather no
\* longer waits for (the gather has raised) runs on all the same.
VariationReturns ==
    /\ v_pc \in {"gathering", "raised"}
    /\ \E k \in 1..Len(v_tasks), npred \in {0, MaxPredictions} :
          /\ v_tasks[k].status = "pending"
          /\ v_tasks' = [v_tasks EXCEPT
                            ![k] = Task("done", Some(parse_generation_response(
                                                        v_requests[k], npred)))]
          /\ v_order' = Append(v_order, k)
    /\ UNCHANGED <<v_pc, num_variations, v_requests, v_raised_at, v_positions>>
    /\ UNCHANGED outside_variations

\* One generate_position task raises (its backend call fails).
VariationFails ==
    /\ v_pc \in {"gathering", "raised"}
    /\ \E k \in 1..Len(v_tasks) :
          /\ v_tasks[k].status = "pending"
          /\ v_tasks' = [v_tasks EXCEPT ![k] = Task("failed", None)]
          /\ v_order' = Append(v_order, k)
    /\ UNCHANGED <<v_pc, num_variations, v_requests, v_raised_at, v_positions>>
    /\ UNCHANGED outside_variations

\* Lines 159-160: every task has returned, the gather returns the list.
VariationsReturn_partial ==
    /\ v_pc = "gathering"
    /\ \A k \in 1..Len(v_tasks) : v_tasks[k].status # "pending"
    /\ v_positions' = Some(SelectSeq(v_tasks, LAMBDA t : t.status = "done"))
    /\ v_pc' = "returned"
    /\ UNCHANGED <<num_variations, v_requests, v_tasks, v_order, v_raised_at>>
    /\ UNCHANGED outside_variations

VariationsReturn ==
    /\ v_pc = "gathering"
    /\ \A k \in 1..Len(v_tasks) : v_tasks[k].status = "done"
    /\ v_positions' = Some(gathered(v_tasks, v_order))
    /\ v_pc' = "returned"
    /\ UNCHANGED <<num_variations, v_requests, v_tasks, v_order, v_raised_at>>
    /\ UNCHANGED outside_variations

\* Line 159: a task has raised, the gather raises its exception.
VariationsRaise ==
    /\ v_pc = "gathering"
    /\ \E k \in 1..Len(v_tasks) : v_tasks[k].status = "failed"
    /\ v_pc' = "raised"
    /\ v_raised_at' = Some(Len(v_order))
    /\ UNCHANGED <<num_variations, v_requests, v_tasks, v_order, v_positions>>
    /\ UNCHANGED outside_variations

VariationsInit ==
    /\ HarnessIdle
    /\ EngineIdle
    /\ max_iterations = 0
    /\ VariationsIdle
    /\ ExploreIdle
    /\ OutsideCoreIdle

VariationsNext ==
    \/ GenerateVariations
    \/ VariationReturns
    \/ VariationFails
    \/ VariationsReturn
    \/ VariationsRaise

VariationsSpec == VariationsInit /\ [][VariationsNext]_vars

\* -------------------------------------- explore_problem_space (engine.py)
\* DebateSession.max_iterations when the constructor is not given one.
DefaultMaxIterations == 10

\* str(uuid.uuid4()) of the loop's pass k: one fresh id per variant.
ExploreSessionId(k) == "sid" \o ToString(k)

\* What run_tribunal may return for a variant (taken at its interface as in
\* LocalContents): the logic check's score, the novelty score, and whether
\* the contradiction finder reports a contradiction.
ExploreContents ==
    {[logic |-> 90, nov |-> 80, contra |-> <<>>],
     [logic |-> 90, nov |-> 60, contra |-> <<>>],
     [logic |-> 60, nov |-> 80, contra |-> <<>>],
     [logic |-> 60, nov |-> 60, contra |-> <<>>],
     [logic |-> 90, nov |-> 80, contra |-> <<"Contradiction 1">>]}

\* The four critiques of run_tribunal (tribunal.py 51-145) for content c:
\* only _assess_novelty sets novelty_assessment, only _find_contradictions
\* sets contradictions_found, and the last two report 0.8.
ExploreTribunalOutput(pid, c) ==
    <<Critique(pid, TribunalModels[1], c.logic, None, <<>>),
      Critique(pid, TribunalModels[2], 90, None, c.contra),
      Critique(pid, TribunalModels[3], 80, Some(c.nov), <<>>),
      Critique(pid, TribunalModels[4], 80, None, <<>>)>>

\* Lines 217-235: the session of one variant.
explore_session_unless_revise(sid, position, local_critiques) ==
    LET c == build_consensus(position, local_critiques)
    IN  [DebateSession(sid, position, DefaultMaxIterations) EXCEPT
            !.critiques = local_critiques,
            !.final_consensus = Some(c),
            !.converged = (c.decision # "REVISE")]

explore_session(sid, position, local_critiques) ==
    [DebateSession(sid, position, DefaultMaxIterations) EXCEPT
        !.critiques = local_critiques,
        !.final_consensus = Some(build_consensus(position, local_critiques)),
        !.converged = TRUE]

\* The sort key of lines 240-246:
\* (final_consensus.unanimous_validity, final_consensus.average_novelty).
sort_key(s) ==
    LET c == Get(s.final_consensus)
    IN  [validity |-> IF c.unanimous_validity THEN 1 ELSE 0,
         novelty |-> c.average_novelty]

\* Tuple comparison a < b of two sort keys.
key_less(a, b) ==
    \/ a.validity < b.validity
    \/ /\ a.validity = b.validity
       /\ a.novelty.num * b.novelty.den < b.novelty.num * a.novelty.den

\* list.sort(key=..., reverse=True): descending, and stable (elements with
\* equal keys keep their order).  insert_descending puts s behind every
\* element whose key is not smaller than its own.
RECURSIVE insert_descending(_, _)
insert_descending(sorted, s) ==
    IF sorted = <<>> THEN <<s>>
    ELSE IF key_less(sort_key(Head(sorted)), sort_key(s))
         THEN <<s>> \o sorted
         ELSE <<Head(sorted)>> \o insert_descending(Tail(sorted), s)

\* A descending sort that puts s before the elements of equal key, as
\* sorting ascending and reversing the list does.
RECURSIVE insert_descending_unstable(_, _)
insert_descending_unstable(sorted, s) ==
    IF sorted = <<>> THEN <<s>>
    ELSE IF key_less(sort_key(s), sort_key(Head(sorted)))
         THEN <<Head(sorted)>> \o insert_descending_unstable(Tail(sorted), s)
         ELSE <<s>> \o sorted

RECURSIVE sort_sessions_reversed(_)
sort_sessions_reversed(sessions) ==
    IF sessions = <<>> THEN <<>>
    ELSE insert_descending_unstable(
             sort_sessions_reversed(SubSeq(sessions, 1, Len(sessions) - 1)),
             sessions[Len(sessions)])

\* A descending order that keeps one session per key, as collecting the
\* sessions in a mapping from key to session does.
RECURSIVE insert_distinct(_, _)
insert_distinct(sorted, s) ==
    IF sorted = <<>> THEN <<s>>
    ELSE IF key_less(sort_key(Head(sorted)), sort_key(s))
         THEN <<s>> \o sorted
         ELSE IF key_less(sort_key(s), sort_key(Head(sorted)))
              THEN <<Head(sorted)>> \o insert_distinct(Tail(sorted), s)
              ELSE <<s>> \o Tail(sorted)

RECURSIVE sort_sessions_distinct_keys(_)
sort_sessions_distinct_keys(sessions) ==
    IF sessions = <<>> THEN <<>>
    ELSE insert_distinct(
             sort_sessions_distinct_keys(SubSeq(sessions, 1, Len(sessions) - 1)),
             sessions[Len(sessions)])

RECURSIVE sort_sessions(_)
sort_sessions(sessions) ==
    IF sessions = <<>> THEN <<>>
    ELSE insert_descending(sort_sessions(SubSeq(sessions, 1, Len(sessions) - 1)),
                           sessions[Len(sessions)])

\* Lines 203-222: generate_variations has returned its positions; the loop
\* starts with the first variant and awaits its run_tribunal.  With no
\* position the loop is skipped and line 248 indexes sessions[0] of the
\* empty list: IndexError.
ExploreLoopStarts ==
    /\ x_pc = "idle"
    /\ v_pc = "returned"
    /\ IF num_variations = 0
       THEN /\ x_pc' = "raised"
            /\ UNCHANGED <<x_index, x_panels>>
       ELSE /\ x_pc' = "critiquing"
            /\ x_index' = 1
            /\ x_panels' = [k \in 1..num_variations |->
                               IF k = 1 THEN "running" ELSE "not_started"]
    /\ UNCHANGED <<x_sessions, x_result>>
    /\ UNCHANGED variation_vars
    /\ UNCHANGED outside_explore

\* Line 203: generate_variations raises, and so does explore_problem_space.
ExploreVariationsRaise ==
    /\ x_pc = "idle"
    /\ v_pc = "raised"
    /\ x_pc' = "raised"
    /\ UNCHANGED <<x_index, x_panels, x_sessions, x_result>>
    /\ UNCHANGED variation_vars
    /\ UNCHANGED outside_explore

\* Lines 222-249: the panel of the current variant returns; its consensus
\* is built and its session appended; then the next variant's panel is
\* awaited, or, after the last one, the sessions are sorted and returned.
ExplorePanelReturns ==
    /\ x_pc = "critiquing"
    /\ \E c \in ExploreContents :
          LET sid == ExploreSessionId(x_index)
              position == [Get(v_positions)[x_index] EXCEPT
                              !.id = PositionId(sid, 0)]
              local == ExploreTribunalOutput(position.id, c)
              all == Append(x_sessions, explore_session(sid, position, local))
          IN  /\ x_sessions' = all
              /\ IF x_index < num_variations
                 THEN /\ x_index' = x_index + 1
                      /\ x_panels' = [x_panels EXCEPT ![x_index] = "done",
                                                      ![x_index + 1] = "running"]
                      /\ UNCHANGED <<x_pc, x_result>>
                 ELSE /\ x_panels' = [x_panels EXCEPT ![x_index] = "done"]
                      /\ x_result' = Some(sort_sessions(all))
                      /\ x_pc' = "returned"
                      /\ UNCHANGED x_index
    /\ UNCHANGED variation_vars
    /\ UNCHANGED outside_explore

\* Line 222: run_tribunal raises for the current variant (an evaluator
\* failed), and explore_problem_space raises.
ExplorePanelFails ==
    /\ x_pc = "critiquing"
    /\ x_panels' = [x_panels EXCEPT ![x_index] = "failed"]
    /\ x_pc' = "raised"
    /\ UNCHANGED <<x_index, x_sessions, x_result>>
    /\ UNCHANGED variation_vars
    /\ UNCHANGED outside_explore

ExploreNext ==
    \/ VariationsNext
    \/ ExploreLoopStarts
    \/ ExploreVariationsRaise
    \/ ExplorePanelReturns
    \/ ExplorePanelFails

ExploreSpec == VariationsInit /\ [][ExploreNext]_vars

\* ----------------------------------------------------------------------
\* Properties of build_consensus (checked under ConsensusSpec)
\* ----------------------------------------------------------------------
\* The conditions of the five checks, stated on the harness inputs.
H_Built == consensus # None
H_Result == Get(consensus)
H_Len == Len(test_critiques)
H_Valid == {i \in 1..H_Len : test_critiques[i].logical_consistency >= LogicalThreshold}
H_AllValid == H_Len > 0 /\ Cardinality(H_Valid) = H_Len
H_Present == SelectSeq(test_critiques, LAMBDA c : c.novelty_assessment # None)
H_NoveltySum == SeqSum([i \in 1..Len(H_Present) |-> Get(H_Present[i].novelty_assessment)])
H_NoveltyBelow ==
    IF H_Present = <<>> THEN NeutralNovelty < novelty_threshold
    ELSE H_NoveltySum < novelty_threshold * Len(H_Present)
H_PredictionCount == Len(test_position.testable_predictions)
H_TooFewPredictions == H_PredictionCount < min_testable_predictions
H_AgreementBelow == Cardinality(H_Valid) < Max(3, (3 * H_Len) \div 4)
H_SomeContradiction ==
    \E i \in 1..H_Len : test_critiques[i].contradictions_found # <<>>
H_SomeReasonMentions(word) ==
    \E i \in 1..Len(H_Result.reasons) : Mentions(H_Result.reasons[i], word)
H_LastReasonMentions(word) ==
    /\ H_Result.reasons # <<>>
    /\ Mentions(H_Result.reasons[Len(H_Result.reasons)], word)

\* C4: the checks run in the order validity, novelty, predictions, coherence
\* agreement, contradictions, and the first failing one decides: whenever
\* one of the first three fails the decision is REJECT, also when the
\* coherence or the contradiction check would have asked for REVISE.
C4_FirstFailingCheckDecides ==
    H_Built =>
        /\ (~H_AllValid \/ H_NoveltyBelow \/ H_TooFewPredictions)
              => H_Result.decision = "REJECT"
        /\ (H_AllValid /\ ~H_NoveltyBelow /\ ~H_TooFewPredictions /\ H_AgreementBelow)
              => H_Result.decision = "REVISE"

\* C4 witness: the novelty check fails on a list that also carries a
\* contradiction and too little agreement, and the decision is REJECT.
C4_Witness ==
    /\ H_Built
    /\ H_AllValid /\ H_NoveltyBelow
    /\ H_AgreementBelow /\ H_SomeContradiction
    /\ H_Result.decision = "REJECT"

C7_Original ==
    (H_Built /\ H_TooFewPredictions) =>
        /\ H_Result.decision = "REJECT"
        /\ H_SomeReasonMentions("prediction")

\* C7 amended: with fewer than min_testable_predictions predictions the
\* decision is REJECT whatever the critiques; the reasons end with the
\* "prediction" reason when the validity and novelty checks pass, and
\* mention no prediction when one of those two checks fails first.
C7_RejectOnTooFewPredictions ==
    (H_Built /\ H_TooFewPredictions) =>
        /\ H_Result.decision = "REJECT"
        /\ (H_AllValid /\ ~H_NoveltyBelow) => H_LastReasonMentions("prediction")
        /\ (~H_AllValid \/ H_NoveltyBelow) => ~H_SomeReasonMentions("prediction")

\* C7 witness: good critiques, one prediction: REJECT for the predictions.
C7_Witness ==
    /\ H_Built
    /\ H_TooFewPredictions
    /\ H_AllValid /\ ~H_NoveltyBelow
    /\ H_Result.decision = "REJECT"
    /\ H_LastReasonMentions("prediction")

\* C8 as claimed: whenever the average novelty is below novelty_threshold
\* the decision is REJECT and some reason contains "novelty".
C8_Original ==
    (H_Built /\ H_NoveltyBelow) =>
        /\ H_Result.decision = "REJECT"
        /\ H_SomeReasonMentions("novelty")

\* C8 amended: whenever the average novelty is below novelty_threshold the
\* decision is REJECT; the reasons end with the "novelty" reason when the
\* validity check passes, and contain no "novelty" when it fails.
C8_RejectOnLowNovelty ==
    (H_Built /\ H_NoveltyBelow) =>
        /\ H_Result.decision = "REJECT"
        /\ H_AllValid => H_LastReasonMentions("novelty")
        /\ ~H_AllValid => ~H_SomeReasonMentions("novelty")

\* C8 witness: valid critiques whose present novelty values average below
\* the threshold: REJECT for the novelty.
C8_Witness ==
    /\ H_Built
    /\ H_AllValid
    /\ H_Present # <<>> /\ H_NoveltyBelow
    /\ H_Result.decision = "REJECT"
    /\ H_LastReasonMentions("novelty")

\* C9: when the validity, novelty, prediction and coherence checks pass and
\* some critique carries a contradiction, the decision is REVISE and a
\* reason mentions "contradiction".
C9_ReviseOnContradiction ==
    (/\ H_Built
     /\ H_AllValid /\ ~H_NoveltyBelow /\ ~H_TooFewPredictions /\ ~H_AgreementBelow
     /\ H_SomeContradiction) =>
        /\ H_Result.decision = "REVISE"
        /\ H_SomeReasonMentions("contradiction")

\* C9 witness: three critiques at 0.9 / 0.8, two predictions, exactly one of
\* the critiques (not the first) carrying a contradiction: REVISE.
C9_Witness ==
    /\ H_Built
    /\ H_Len = 3
    /\ \A i \in 1..H_Len :
          /\ test_critiques[i].logical_consistency = 90
          /\ test_critiques[i].novelty_assessment = Some(80)
    /\ test_critiques[1].contradictions_found = <<>>
    /\ Cardinality({i \in 1..H_Len : test_critiques[i].contradictions_found # <<>>}) = 1
    /\ H_PredictionCount = 2
    /\ H_Result.decision = "REVISE"

\* C10: when the validity, novelty and prediction checks pass and fewer
\* than max(3, floor(0.75 * n)) of the n critiques have
\* logical_consistency >= 0.7, the decision is REVISE, not REJECT.
C10_ReviseOnWeakAgreement ==
    (/\ H_Built
     /\ H_AllValid /\ ~H_NoveltyBelow /\ ~H_TooFewPredictions
     /\ H_AgreementBelow) =>
        H_Result.decision = "REVISE"

\* C10 witness: two valid, novel critiques and enough predictions: the
\* agreement of 2 is below 3 and the decision is REVISE.
C10_Witness ==
    /\ H_Built
    /\ H_Len = 2
    /\ H_AllValid /\ ~H_NoveltyBelow /\ ~H_TooFewPredictions
    /\ H_AgreementBelow
    /\ H_Result.decision = "REVISE"

\* ----------------------------------------------------------------------
\* Properties of process_problem (checked under Spec)
\* ----------------------------------------------------------------------
E_Session == Get(session)
E_Returned == pc = "returned"
E_Stopped == pc \in {"returned", "raised"}
E_Cycles == Len(decisions)
E_LastDecision == decisions[Len(decisions)]

\* C1: process_problem stops at the first cycle whose decision is ACCEPT or
\* REJECT or at which the budget is spent, and sets converged only then: a
\* returned session is converged with a final ACCEPT/REJECT or with
\* iterations = max_iterations; converged is never set while the loop runs;
\* every cycle before the last one decided REVISE; a first-pass ACCEPT
\* returns with iterations = 0.
C1_StopsAtFirstTerminalCycle ==
    /\ E_Returned =>
          /\ E_Session.converged
          /\ E_Session.final_consensus # None
          /\ Get(E_Session.final_consensus).decision = E_LastDecision
          /\ \/ E_LastDecision \in {"ACCEPT", "REJECT"}
             \/ E_Session.iterations = E_Session.max_iterations
    /\ (session # None /\ E_Session.converged) => E_Returned
    /\ \A i \in 1..(E_Cycles - 1) : decisions[i] = "REVISE"
    /\ (E_Returned /\ decisions[1] = "ACCEPT") =>
          E_Session.iterations = 0 /\ E_Cycles = 1

\* C1 witness: a session returned on an ACCEPT reached after one revision.
C1_Witness ==
    /\ E_Returned
    /\ decisions = <<"REVISE", "ACCEPT">>
    /\ E_Session.iterations = 1
    /\ E_Session.iterations < E_Session.max_iterations
    /\ E_Session.converged

\* C2: the iteration counter is 0 when the session is created, grows by one
\* with each further Generator call (Generator calls = iterations + 1) and
\* stays within 0..max_iterations.
C2_IterationCounter ==
    /\ session = None => gen_calls <= 1
    /\ session # None =>
          /\ 0 <= E_Session.iterations
          /\ E_Session.iterations <= E_Session.max_iterations
          /\ gen_calls = E_Session.iterations + 1
          /\ E_Session.max_iterations = max_iterations

\* C2 witness: the counter has reached the budget after two revision cycles.
C2_Witness ==
    /\ session # None
    /\ E_Session.iterations = 2
    /\ E_Session.max_iterations = 2
    /\ gen_calls = 3
    /\ pc = "I_tribunal"

\* The resumptions process_problem still has before it, at most: four per
\* cycle not yet decided, less the ones of the current cycle already made.
E_Pending(tasks) == Cardinality({i \in 1..Len(tasks) : tasks[i] = "pending"})

E_Rank ==
    IF E_Stopped THEN 0
    ELSE 13 * (max_iterations + 1 - E_Cycles)
         + (CASE pc = "idle" -> 13
              [] pc \in {"P_generate", "I_generate"} -> 12
              [] pc \in {"P_tribunal", "I_tribunal"} -> 7 + E_Pending(evaluators)
              [] pc \in {"P_cloud", "I_cloud"} ->
                    IF sages = <<>> THEN 6 ELSE 1 + E_Pending(sages))

\* The points at which process_problem is suspended on a backend call.
E_Awaiting ==
    \/ pc \in {"P_generate", "I_generate"}
    \/ /\ pc \in {"P_tribunal", "I_tribunal"}
       /\ \/ E_Pending(evaluators) > 0
          \/ gather_returns(evaluators)
          \/ gather_raises(evaluators)
    \/ /\ pc \in {"P_cloud", "I_cloud"}
       /\ \/ sages = <<>>
          \/ E_Pending(sages) > 0
          \/ gather_settled(sages)

\* C3: provided every backend call returns or fails, process_problem ends,
\* by returning or raising, after at most max_iterations + 1 cycles: once
\* called and until it has ended it is suspended on a backend call with a
\* task still running or a gather ready to resume it, every step lowers the natural number E_Rank, which is 0 only once it has
\* ended, and the number of cycles never exceeds max_iterations + 1.
C3_Terminates ==
    /\ [](E_Stopped \/ E_Awaiting \/ pc = "idle")
    /\ [](E_Rank >= 0 /\ (E_Rank = 0 <=> E_Stopped))
    /\ [](E_Cycles <= max_iterations + 1)
    /\ [][E_Rank' < E_Rank]_vars

\* C3 witness: every decision was REVISE and the call returned after
\* max_iterations + 1 cycles.
C3_Witness ==
    /\ E_Returned
    /\ max_iterations >= 1
    /\ E_Cycles = max_iterations + 1
    /\ \A i \in 1..E_Cycles : decisions[i] = "REVISE"
    /\ E_Session.converged

\* The novelty_assessment fields of the harness list, in order.
H_NoveltyFields == [i \in 1..H_Len |-> test_critiques[i].novelty_assessment]

\* C11: average_novelty is the mean of exactly the novelty_assessment values
\* that are present (an absent value counts neither in the sum nor in the
\* number of values) and is 0.5 when none is present, the empty list
\* included; [0.8, 0.6, None] averages to 0.7.
C11_AverageOfPresentNovelty ==
    H_Built =>
        LET avg == H_Result.average_novelty
        IN  /\ avg.den > 0
            /\ H_Present = <<>> => avg.num = 50 * avg.den
            /\ H_Present # <<>> => avg.num * Len(H_Present) = H_NoveltySum * avg.den
            /\ H_NoveltyFields = <<Some(80), Some(60), None>>
                  => avg.num = 70 * avg.den

\* C11 witness: the list [0.8, 0.6, None] has been averaged to 0.7.
C11_Witness ==
    /\ H_Built
    /\ H_NoveltyFields = <<Some(80), Some(60), None>>
    /\ H_Result.average_novelty = [num |-> 70, den |-> 1]

\* ----------------------------------------------------------------------
\* Properties of the panels and of failure handling (checked under Spec)
\* ----------------------------------------------------------------------
\* The await of run_tribunal is behind: the gather has returned or raised.
E_TribunalLeft == pc \notin {"idle", "P_generate", "P_tribunal", "I_tribunal"}

\* The models of a critique list, in order.
E_Models(critiques) == [i \in 1..Len(critiques) |-> critiques[i].model]

\* The models of the tasks that returned, in task order.
RECURSIVE E_Succeeded(_, _, _)
E_Succeeded(tasks, models, i) ==
    IF i > Len(tasks) THEN <<>>
    ELSE (IF tasks[i] = "done" THEN <<models[i]>> ELSE <<>>)
         \o E_Succeeded(tasks, models, i + 1)

\* C12 as claimed: when one of the four evaluators of run_tribunal has
\* failed, run_tribunal still completes: the call does not raise, and the
\* session receives the critiques of the evaluators that succeeded.
C12_Original ==
    (E_TribunalLeft /\ gather_raises(evaluators)) =>
        /\ failure # Some("tribunal")
        /\ pc # "raised"
        /\ SubSeq(E_Models(E_Session.critiques), 1,
                  Len(E_Succeeded(evaluators, TribunalModels, 1)))
              = E_Succeeded(evaluators, TribunalModels, 1)

\* The consensus of the current cycle has been built on the session's list.
E_Decided == pc \in {"I_generate", "returned"} /\ failure # Some("generator")

\* refine_position has returned in the cycle just decided.
E_CouncilReturned == E_Decided /\ failure = None /\ sages # <<>>

\* C13: refine_position never raises because of sage failures: whichever
\* sages fail, once all four have returned or failed it returns exactly the
\* critiques of the sages that succeeded, in sage order (the empty list
\* when all four fail), and the call goes on to the consensus.
C13_CouncilReturnsSuccesses ==
    /\ [](E_CouncilReturned =>
            /\ gather_settled(sages)
            /\ LET all == E_Session.critiques
                   cloud == SubSeq(all, Len(TribunalModels) + 1, Len(all))
               IN  /\ E_Models(cloud) = E_Succeeded(sages, SageModels, 1)
                   /\ \A i \in 1..Len(cloud) :
                         cloud[i].position_id = E_Session.position.id)
    /\ [][(pc \in {"P_cloud", "I_cloud"} /\ sages # <<>>)
             => (pc' # "raised" /\ failure' = None)]_vars

\* C13 witness: all four sages failed and refine_position returned the
\* empty list: the session holds the four local critiques only.
C13_Witness ==
    /\ E_CouncilReturned
    /\ \A i \in 1..Len(sages) : sages[i] = "failed"
    /\ Len(E_Session.critiques) = Len(TribunalModels)

\* C14: a failure of the cloud critique pass, in the first or in a revision
\* cycle, never makes process_problem raise: the consensus of that cycle is
\* built on the four local critiques of the cycle alone, and the loop goes
\* on from its decision.
C14_CloudFailureSwallowed ==
    failure = Some("council") =>
        /\ pc \in {"I_generate", "returned"}
        /\ E_Models(E_Session.critiques) = TribunalModels
        /\ \A i \in 1..Len(E_Session.critiques) :
              E_Session.critiques[i].position_id = E_Session.position.id
        /\ E_Session.final_consensus
              = Some(build_consensus(E_Session.position, E_Session.critiques))
        /\ Get(E_Session.final_consensus).participating_models
              = {TribunalModels[i] : i \in 1..Len(TribunalModels)}
        /\ decisions # <<>>
        /\ decisions[Len(decisions)] = Get(E_Session.final_consensus).decision

\* C14 witness: the cloud pass failed in a revision cycle and the call
\* returned with a decision made on the local critiques.
C14_Witness ==
    /\ failure = Some("council")
    /\ pc = "returned"
    /\ E_Session.iterations >= 1
    /\ Len(E_Session.critiques) = Len(TribunalModels)

\* C15: a Generator failure in any cycle leaves process_problem as an
\* error: the call raises at once, leaves the session as it was, and
\* nothing is returned afterwards, not even the session reached so far.
C15_GeneratorFailureRaises ==
    /\ [](failure = Some("generator") => pc = "raised")
    /\ [][(pc \in {"P_generate", "I_generate"} /\ failure' = Some("generator"))
             => (pc' = "raised" /\ session' = session /\ decisions' = decisions)]_vars
    /\ [][pc # "raised"]_vars

\* C15 witness: the Generator failed in a revision cycle, after a session
\* with a REVISE consensus existed, and the call raised.
C15_Witness ==
    /\ failure = Some("generator")
    /\ pc = "raised"
    /\ session # None
    /\ E_Session.iterations >= 1
    /\ E_Session.final_consensus # None

\* C16 as claimed: process_problem raises only through a Generator failure;
\* no failure of a local evaluator or of a cloud sage makes it raise.
C16_Original ==
    pc = "raised" =>
        /\ failure = Some("generator")
        /\ ~gather_raises(evaluators)

\* The critiques of the current cycle are in the session's list: the local
\* panel has returned and no new position has replaced the one critiqued.
E_Critiqued == pc \in {"P_cloud", "I_cloud"} \/ E_Decided

\* C17: a revision cycle replaces the session's critique list: once the
\* local panel of a cycle has returned, and when the cycle is decided, the
\* list holds the four local critiques of the current position followed by
\* that cycle's cloud critiques, and no critique of an earlier position.
C17_CritiquesReplaced ==
    E_Critiqued =>
        LET all == E_Session.critiques
            cloud == SubSeq(all, Len(TribunalModels) + 1, Len(all))
        IN  /\ \A i \in 1..Len(all) : all[i].position_id = E_Session.position.id
            /\ SubSeq(E_Models(all), 1, Len(TribunalModels)) = TribunalModels
            /\ Len(all) <= Len(TribunalModels) + Len(SageModels)
            /\ pc \in {"P_cloud", "I_cloud"} => cloud = <<>>
            /\ \A i, j \in 1..Len(cloud) : i # j => cloud[i].model # cloud[j].model

\* C17 witness: after a revision cycle with the cloud pass the list holds
\* the eight critiques of the second position only.
C17_Witness ==
    /\ pc = "returned"
    /\ E_Session.iterations = 1
    /\ Len(decisions) = 2
    /\ Len(E_Session.critiques) = Len(TribunalModels) + Len(SageModels)
    /\ \A i \in 1..Len(E_Session.critiques) :
          E_Session.critiques[i].position_id = "sid-pos-1"

\* The position id the format of line 58 / 134 gives for iteration n.
E_ExpectedId(n) == E_Session.id \o "-pos-" \o ToString(n)

\* C18: whenever a position is being critiqued or is decided on, it is the
\* session's current position and carries the id
\* "{session_id}-pos-{iteration}" for the current iteration counter (0 for
\* the first position), and the consensus built on it records that id.
C18_PositionIdFollowsIteration ==
    /\ pc \in {"P_tribunal", "P_cloud", "I_tribunal", "I_cloud"}
          => E_Session.position.id = E_ExpectedId(E_Session.iterations)
    /\ pc \in {"P_tribunal", "P_cloud"} => E_Session.iterations = 0
    /\ (pc = "returned" /\ failure # Some("generator"))
          => /\ E_Session.position.id = E_ExpectedId(E_Session.iterations)
             /\ Get(E_Session.final_consensus).position_id
                   = E_ExpectedId(E_Session.iterations)
    /\ pc = "I_generate"
          => Get(E_Session.final_consensus).position_id
                = E_ExpectedId(E_Session.iterations - 1)

\* C18 witness: the third position is being critiqued under the id
\* "sid-pos-2".
C18_Witness ==
    /\ pc = "I_cloud"
    /\ E_Session.iterations = 2
    /\ E_Session.position.id = "sid-pos-2"

\* Every task of the gather has returned.
E_AllDone(tasks) == tasks # <<>> /\ \A i \in 1..Len(tasks) : tasks[i] = "done"

\* C19: fan-out results are joined, not raced: a consensus decision is
\* computed only once all four local evaluators have finished; with the
\* cloud pass the sages are started only after the local panel has finished,
\* and the decision is computed only in the cloud phase, once every started
\* sage has finished or failed.
C19_JoinedNotRaced ==
    /\ [][decisions' # decisions =>
             /\ Len(evaluators) = Len(TribunalModels)
             /\ E_AllDone(evaluators)
             /\ E_Pending(sages) = 0
             /\ use_cloud_apis => pc \in {"P_cloud", "I_cloud"}
             /\ (use_cloud_apis /\ sages # <<>>) =>
                   /\ Len(sages) = Len(SageModels)
                   /\ \A i \in 1..Len(sages) : sages[i] \in {"done", "failed"}]_vars
    /\ [][(sages = <<>> /\ sages' # <<>>) =>
             /\ use_cloud_apis
             /\ pc \in {"P_cloud", "I_cloud"}
             /\ E_AllDone(evaluators)
             /\ decisions' = decisions]_vars
    /\ [](pc \in {"P_cloud", "I_cloud"} => E_AllDone(evaluators))

\* C19 witness: a decision has been made after a cloud pass in which the
\* sages finished with mixed outcomes, all four evaluators being done.
C19_Witness ==
    /\ decisions # <<>>
    /\ use_cloud_apis
    /\ E_AllDone(evaluators)
    /\ E_Pending(sages) = 0 /\ sages # <<>>
    /\ \E i, j \in 1..Len(sages) : sages[i] = "done" /\ sages[j] = "failed"

V_SomeFailed == \E k \in 1..Len(v_tasks) : v_tasks[k].status = "failed"

\* C21: generate_variations is all-or-nothing: once one of the n
\* generations has failed the call never returns a list, it raises once and
\* stays raised with no partial result, and the sibling generations are
\* not cancelled: each is still pending or runs to its own completion or
\* failure, also after the call has raised.
C21_VariationsAllOrNothing ==
    /\ [](V_SomeFailed => (v_pc # "returned" /\ v_positions = None))
    /\ [](v_pc = "raised" => (V_SomeFailed /\ v_positions = None /\ v_raised_at # None))
    /\ [](v_pc = "returned" => ~V_SomeFailed)
    /\ [][v_pc = "raised" => (v_pc' = "raised" /\ v_raised_at' = v_raised_at)]_vars
    /\ [][\A k \in 1..Len(v_tasks) :
             /\ v_tasks'[k].status \in {"pending", "done", "failed"}
             /\ v_tasks[k].status # "pending" => v_tasks'[k] = v_tasks[k]]_vars

\* C21 witness: the first of three generations failed, the call raised at
\* once, and the two siblings ran on afterwards, one to completion and one
\* to its own failure.
C21_Witness ==
    /\ v_pc = "raised"
    /\ num_variations = 3
    /\ v_raised_at = Some(1)
    /\ Len(v_order) = 3
    /\ \E j, k \in 1..3 :
          /\ j # v_order[1] /\ k # v_order[1]
          /\ v_tasks[j].status = "done"
          /\ v_tasks[k].status = "failed"

\* ----------------------------------------------------------------------
\* Properties of explore_problem_space (checked under ExploreSpec)
\* ----------------------------------------------------------------------
X_Returned == x_pc = "returned"
X_Result == Get(x_result)
X_Decision(s) == Get(s.final_consensus).decision

\* C22: exploration is one-shot: every session explore_problem_space
\* returns is converged with iterations 0, carries a consensus and the four
\* critiques of one local panel run on its own position, and the Generator
\* was invoked once per variant only, whatever the decisions were.
C22_ExplorationOneShot ==
    /\ Len(v_tasks) = num_variations /\ Len(v_order) <= num_variations
    /\ X_Returned =>
          /\ Len(X_Result) = num_variations
          /\ \A k \in 1..Len(X_Result) :
                LET s == X_Result[k]
                IN  /\ s.converged = TRUE
                    /\ s.iterations = 0
                    /\ s.final_consensus # None
                    /\ E_Models(s.critiques) = TribunalModels
                    /\ s.position.id = s.id \o "-pos-0"
                    /\ \A i \in 1..Len(s.critiques) :
                          s.critiques[i].position_id = s.position.id
                    /\ Get(s.final_consensus).position_id = s.position.id

\* C22 witness: a variant whose decision is REVISE was returned converged,
\* with iterations 0, after exactly two generations.
C22_Witness ==
    /\ X_Returned
    /\ num_variations = 2
    /\ Len(v_order) = 2
    /\ \E k \in 1..Len(X_Result) :
          /\ X_Decision(X_Result[k]) = "REVISE"
          /\ X_Result[k].converged
          /\ X_Result[k].iterations = 0

\* The place of a returned session in the loop's (generation) order.
X_GenIndex(s) == CHOOSE k \in 1..Len(x_sessions) : x_sessions[k].id = s.id

X_Validity(s) == Get(s.final_consensus).unanimous_validity
X_Novelty(s) == Get(s.final_consensus).average_novelty
X_NoveltyLess(a, b) ==
    X_Novelty(a).num * X_Novelty(b).den < X_Novelty(b).num * X_Novelty(a).den

\* C23: the sessions are returned sorted in descending order of
\* (unanimous_validity, average_novelty): every valid variant before every
\* invalid one, among equally valid ones the higher novelty first, and
\* variants with equal pairs in their generation order; the list returned
\* is a rearrangement of the sessions built.
C23_SortedStable ==
    X_Returned =>
        /\ Len(X_Result) = Len(x_sessions)
        /\ {X_Result[k] : k \in 1..Len(X_Result)}
              = {x_sessions[k] : k \in 1..Len(x_sessions)}
        /\ \A i, j \in 1..Len(X_Result) :
              i < j =>
                 LET a == X_Result[i]
                     b == X_Result[j]
                 IN  /\ X_Validity(b) => X_Validity(a)
                     /\ X_Validity(a) = X_Validity(b) => ~X_NoveltyLess(a, b)
                     /\ (X_Validity(a) = X_Validity(b)
                           /\ ~X_NoveltyLess(a, b) /\ ~X_NoveltyLess(b, a))
                          => X_GenIndex(a) < X_GenIndex(b)

\* C23 witness: three variants came back reordered: the last one generated
\* is first, and the two others, of equal pair, follow in generation order.
C23_Witness ==
    /\ X_Returned
    /\ num_variations = 3
    /\ X_Result = <<x_sessions[3], x_sessions[1], x_sessions[2]>>
    /\ X_Validity(x_sessions[1]) = X_Validity(x_sessions[2])
    /\ X_Novelty(x_sessions[1]) = X_Novelty(x_sessions[2])
    /\ ~X_Validity(x_sessions[1]) /\ X_Validity(x_sessions[3])
    /\ X_NoveltyLess(x_sessions[3], x_sessions[1])

\* C24 as claimed: the panels of the n variants run concurrently: while the
\* panel of one variant is in progress, no other variant is still waiting
\* for its panel to be started.
C24_Original ==
    (x_pc = "critiquing" /\ \E k \in 1..Len(x_panels) : x_panels[k] = "running")
        => \A k \in 1..Len(x_panels) : x_panels[k] # "not_started"

\* ----------------------------------------- LLM clients (api/llm_clients.py)
\* The generate calls followed on one client.
MaxCalls == 2

\* @retry(stop=stop_after_attempt(3), ...) on every generate.
stop_after_attempt == 3

ClientKinds == {"ollama", "openai", "anthropic", "google"}

\* The clients that read an API key from the settings.
CloudKinds == {"openai", "anthropic", "google"}

\* `if not self.api_key` (the constructors and the head of generate).
credential_missing(kind, api_key) == kind \in CloudKinds /\ ~api_key

\* What one attempt of generate may end in: a text returned, or an
\* exception; `sent` tells whether the request left for the backend.
Attempt(ok, value, sent) == [ok |-> ok, value |-> value, sent |-> sent]

AttemptOutcomes(kind, api_key) ==
    IF credential_missing(kind, api_key)
    THEN {Attempt(FALSE, "ValueError", FALSE)}
    ELSE IF kind = "ollama"
    THEN {Attempt(TRUE, "", TRUE), Attempt(TRUE, "Response", TRUE),
          Attempt(FALSE, "HTTPError", TRUE)}
    ELSE {Attempt(TRUE, "Response", TRUE), Attempt(FALSE, "APIError", TRUE),
          Attempt(FALSE, "ImportError", FALSE)}

\* tenacity's stop condition after a failed attempt.
should_stop_after_four(attempt_number) ==
    attempt_number >= stop_after_attempt + 1

should_stop(attempt_number) == attempt_number >= stop_after_attempt

\* What the caller of generate gets.
Returned(text) == [kind |-> "returned", value |-> text]
Raised(error) == [kind |-> "raised", value |-> error]

\* A constructor that refuses to build a client without its key.
ConstructClient_requires_key ==
    /\ c_pc = "none"
    /\ \E kind \in ClientKinds, key \in BOOLEAN :
          /\ kind = "ollama" => ~key
          /\ c_kind' = kind
          /\ c_api_key' = key
          /\ c_pc' = IF credential_missing(kind, key)
                     THEN "construct_failed" ELSE "ready"
    /\ UNCHANGED <<c_warnings, c_calls, c_log, c_requests, c_observed>>
    /\ UNCHANGED outside_client

\* __init__ of a client: the key is read, its absence is logged.
ConstructClient ==
    /\ c_pc = "none"
    /\ \E kind \in ClientKinds, key \in BOOLEAN :
          /\ kind = "ollama" => ~key
          /\ c_kind' = kind
          /\ c_api_key' = key
          /\ c_warnings' = IF credential_missing(kind, key) THEN 1 ELSE 0
    /\ c_pc' = "ready"
    /\ UNCHANGED <<c_calls, c_log, c_requests, c_observed>>
    /\ UNCHANGED outside_client

\* A caller awaits client.generate(...): the retry wrapper starts.
CallGenerate ==
    /\ c_pc \in {"ready", "returned", "raised"}
    /\ c_calls < MaxCalls
    /\ c_calls' = c_calls + 1
    /\ c_log' = <<>>
    /\ c_observed' = <<>>
    /\ c_pc' = "attempting"
    /\ UNCHANGED <<c_kind, c_api_key, c_warnings, c_requests>>
    /\ UNCHANGED outside_client

\* One attempt runs the body of generate and returns its text.
AttemptReturns ==
    /\ c_pc = "attempting"
    /\ \E a \in AttemptOutcomes(c_kind, c_api_key) :
          /\ a.ok
          /\ c_log' = Append(c_log, a)
          /\ c_requests' = c_requests + 1
          /\ c_observed' = <<Returned(a.value)>>
    /\ c_pc' = "returned"
    /\ UNCHANGED <<c_kind, c_api_key, c_warnings, c_calls>>
    /\ UNCHANGED outside_client

\* One attempt raises: the wrapper stops with RetryError or backs off.
AttemptRaises ==
    /\ c_pc = "attempting"
    /\ \E a \in AttemptOutcomes(c_kind, c_api_key) :
          /\ ~a.ok
          /\ c_log' = Append(c_log, a)
          /\ c_requests' = IF a.sent THEN c_requests + 1 ELSE c_requests
    /\ IF should_stop(Len(c_log) + 1)
       THEN c_pc' = "raised" /\ c_observed' = <<Raised("RetryError")>>
       ELSE c_pc' = "sleeping" /\ UNCHANGED c_observed
    /\ UNCHANGED <<c_kind, c_api_key, c_warnings, c_calls>>
    /\ UNCHANGED outside_client

\* wait_exponential(multiplier=1, min=4, max=10) has elapsed.
BackoffElapses ==
    /\ c_pc = "sleeping"
    /\ c_pc' = "attempting"
    /\ UNCHANGED <<c_kind, c_api_key, c_warnings, c_calls, c_log, c_requests,
                   c_observed>>
    /\ UNCHANGED outside_client

ClientInit ==
    /\ HarnessIdle
    /\ EngineIdle
    /\ max_iterations = 0
    /\ VariationsIdle
    /\ ExploreIdle
    /\ OutsideCoreIdle

ClientNext ==
    \/ ConstructClient
    \/ CallGenerate
    \/ AttemptReturns
    \/ AttemptRaises
    \/ BackoffElapses

ClientSpec == ClientInit /\ [][ClientNext]_vars

\* ----------------------------------------------------------------------
\* Properties of the clients (checked under ClientSpec)
L_Failed(i) == ~c_log[i].ok
L_InCall == c_pc \in {"attempting", "sleeping", "returned", "raised"}

\* C25: a generate call makes at most three attempts; a successful attempt
\* is the last one and its text is all the caller gets; three failed
\* attempts end the call with the single error RetryError; until then the
\* caller has seen nothing.
C25_RetryCappedAtThree ==
    L_InCall =>
        /\ Len(c_log) <= 3
        /\ \A i \in 1..Len(c_log) : c_log[i].ok => i = Len(c_log)
        /\ (c_pc = "returned") <=> (c_log # <<>> /\ c_log[Len(c_log)].ok)
        /\ c_pc = "returned" =>
              c_observed = <<Returned(c_log[Len(c_log)].value)>>
        /\ (c_pc = "raised") <=>
              (Len(c_log) = 3 /\ \A i \in 1..3 : L_Failed(i))
        /\ c_pc = "raised" => c_observed = <<Raised("RetryError")>>
        /\ c_pc \in {"attempting", "sleeping"} =>
              c_observed = <<>> /\ Len(c_log) < 3

\* A second call that succeeds on its third attempt, after a first call
\* that used up its three attempts.
C25_Witness ==
    /\ c_calls = 2
    /\ c_pc = "returned"
    /\ Len(c_log) = 3
    /\ c_requests = 6

\* C27: a cloud client without its key is constructed all the same, with
\* one warning; every generate call on it fails, and no request is sent.
C27_MissingCredentialDeferred ==
    (c_pc # "none" /\ c_kind \in CloudKinds /\ ~c_api_key) =>
        /\ c_warnings = 1
        /\ c_requests = 0
        /\ c_calls = 0 => (c_pc = "ready" /\ c_observed = <<>>)
        /\ c_calls > 0 =>
              /\ c_pc \in {"attempting", "sleeping", "raised"}
              /\ \A i \in 1..Len(c_log) :
                    c_log[i] = Attempt(FALSE, "ValueError", FALSE)
              /\ c_observed \in {<<>>, <<Raised("RetryError")>>}

C27_Witness ==
    /\ c_kind \in CloudKinds
    /\ ~c_api_key
    /\ c_pc = "raised"
    /\ c_calls = 1
    /\ c_requests = 0


\* ---------------------------------- Critique validation (models/schema.py)
\* The scores the tests construct a Critique with, in hundredths: inside,
\* on and outside the bounds.
TestScores == {-50, -1, 0, 1, 50, 99, 100, 101, 150}

\* Field(ge=0.0, le=1.0)
score_in_range_exclusive(x) == 0 < x /\ x < 100

score_in_range(x) == 0 <= x /\ x <= 100

\* The field validation of Critique: logical_consistency is required,
\* novelty_assessment is validated only when it is not None.
validate_critique(lc, nov) ==
    /\ score_in_range(lc)
    /\ nov # None => score_in_range(Get(nov))

\* Critique(position_id=..., model=..., role=..., logical_consistency=lc,
\* novelty_assessment=nov): the object, or pydantic's ValidationError.
construct_critique(lc, nov) ==
    IF validate_critique(lc, nov)
    THEN [error |-> FALSE,
          critique |-> Some(Critique("test-pos-1", "model1", lc, nov, <<>>))]
    ELSE [error |-> TRUE, critique |-> None]

SchemaInit ==
    /\ HarnessIdle
    /\ EngineIdle
    /\ max_iterations = 0
    /\ VariationsIdle
    /\ ExploreIdle
    /\ ClientIdle
    /\ WebIdle
    /\ RefineIdle
    /\ TextIdle
    /\ k_lc \in TestScores
    /\ k_nov \in {None} \cup {Some(x) : x \in TestScores}
    /\ k_result = None

\* The test constructs the Critique.
ConstructCritique ==
    /\ k_result = None
    /\ k_result' = Some(construct_critique(k_lc, k_nov))
    /\ UNCHANGED <<k_lc, k_nov>>
    /\ UNCHANGED outside_schema

SchemaNext == ConstructCritique

SchemaSpec == SchemaInit /\ [][SchemaNext]_vars

\* ----------------------------------------------------------------------
\* Properties of the schema (checked under SchemaSpec)
K_Outside(x) == x < 0 \/ x > 100
K_Invalid == K_Outside(k_lc) \/ (k_nov # None /\ K_Outside(Get(k_nov)))

\* C26: a Critique with logical_consistency, or a present
\* novelty_assessment, below 0 or above 1 is refused with a validation
\* error and no object; otherwise (0 and 1 included, novelty absent
\* included) the object carries the two values exactly as given.
C26_CritiqueScoresValidated ==
    k_result # None =>
        LET r == Get(k_result)
        IN  /\ K_Invalid => (r.error /\ r.critique = None)
            /\ ~K_Invalid =>
                  /\ ~r.error
                  /\ r.critique # None
                  /\ Get(r.critique).logical_consistency = k_lc
                  /\ Get(r.critique).novelty_assessment = k_nov

\* logical_consistency on the upper bound accepted, with a novelty above it
\* the construction fails.
C26_Witness ==
    /\ k_result # None
    /\ k_lc = 100
    /\ k_nov = Some(101)
    /\ Get(k_result).error


\* ------------------------------------------- POST /explore (web/app.py)
\* How far beyond the accepted range the requests tried go.
MaxBeyond == 2

\* `if num_variations < 1 or num_variations > 50`
min_variations == 1
max_variations == 50

ExploreInputs == (min_variations - MaxBeyond)..(max_variations + MaxBeyond)

invalid_num_variations(n) == n < min_variations \/ n > max_variations

\* A handler whose range check sits inside the try block: its
\* HTTPException is caught by `except Exception` and becomes a 500.
ExploreRequest_checked_in_try ==
    /\ w_pc = "idle"
    /\ \E n \in ExploreInputs :
          /\ w_num_variations' = n
          /\ IF invalid_num_variations(n)
             THEN /\ w_status' = Some(500)
                  /\ w_pc' = "responded"
                  /\ UNCHANGED w_engine_calls
             ELSE /\ w_engine_calls' = w_engine_calls + 1
                  /\ w_pc' = "awaiting_engine"
                  /\ UNCHANGED w_status
    /\ UNCHANGED outside_web

\* explore_problem up to its await: the range check raises
\* HTTPException(400) outside the try block, otherwise the engine is called.
ExploreRequest ==
    /\ w_pc = "idle"
    /\ \E n \in ExploreInputs :
          /\ w_num_variations' = n
          /\ IF invalid_num_variations(n)
             THEN /\ w_status' = Some(400)
                  /\ w_pc' = "responded"
                  /\ UNCHANGED w_engine_calls
             ELSE /\ w_engine_calls' = w_engine_calls + 1
                  /\ w_pc' = "awaiting_engine"
                  /\ UNCHANGED w_status
    /\ UNCHANGED outside_web

\* engine.explore_problem_space returns: the sessions are the response.
ExploreEngineReturns ==
    /\ w_pc = "awaiting_engine"
    /\ w_status' = Some(200)
    /\ w_pc' = "responded"
    /\ UNCHANGED <<w_num_variations, w_engine_calls>>
    /\ UNCHANGED outside_web

\* engine.explore_problem_space raises: `except Exception` answers 500.
ExploreEngineRaises ==
    /\ w_pc = "awaiting_engine"
    /\ w_status' = Some(500)
    /\ w_pc' = "responded"
    /\ UNCHANGED <<w_num_variations, w_engine_calls>>
    /\ UNCHANGED outside_web

\* The application after startup, no request received yet.
WebInit ==
    /\ HarnessIdle
    /\ EngineIdle
    /\ max_iterations = 0
    /\ VariationsIdle
    /\ ExploreIdle
    /\ OutsideCoreIdle

WebNext == ExploreRequest \/ ExploreEngineReturns \/ ExploreEngineRaises

WebSpec == WebInit /\ [][WebNext]_vars

\* ----------------------------------------------------------------------
\* Properties of the web handler (checked under WebSpec)
W_Responded == w_pc = "responded"

\* C28: a request with num_variations below 1 or above 50 is answered 400
\* with no engine call; any other request calls the engine exactly once
\* and is answered 200 or 500.
C28_ExploreRangeChecked ==
    w_pc # "idle" =>
        IF w_num_variations < 1 \/ w_num_variations > 50
        THEN W_Responded /\ w_status = Some(400) /\ w_engine_calls = 0
        ELSE /\ w_engine_calls = 1
             /\ W_Responded => w_status \in {Some(200), Some(500)}
             /\ ~W_Responded => w_status = None

C28_Witness ==
    /\ W_Responded
    /\ w_num_variations = 51
    /\ w_status = Some(400)
    /\ w_engine_calls = 0


\* ----------------------------------------------------------------------
\* The reasons of a consensus result (checked under ConsensusSpec)
\* The check that decides: 1 validity, 2 novelty, 3 predictions,
\* 4 coherence agreement, 5 contradictions; 6 when none fails.
H_DecidingCheck ==
    IF ~H_AllValid THEN 1
    ELSE IF H_NoveltyBelow THEN 2
    ELSE IF H_TooFewPredictions THEN 3
    ELSE IF H_AgreementBelow THEN 4
    ELSE IF H_SomeContradiction THEN 5
    ELSE 6

H_PassTexts ==
    <<"All models agree on logical validity",
      "Novelty score: {:.2f}",
      "{} testable predictions provided",
      "Coherence agreement: {}/{} models">>

H_FinalTexts ==
    <<"Logical flaw detected by one or more models",
      "Insufficient novelty: {:.2f} < {}",
      "Insufficient testable predictions: {} < {}",
      "Insufficient coherence agreement: {}/{} models",
      "Critical contradictions found: {}",
      "All criteria met for acceptance">>

H_ReasonTexts == [i \in 1..Len(H_Result.reasons) |-> H_Result.reasons[i].text]

\* C29: the reasons are the pass-reasons of the checks before the deciding
\* one, in order, followed by the deciding check's own reason; a validity
\* REJECT has one reason, ACCEPT the four pass-reasons and the acceptance
\* reason.
C29_ReasonsCumulative ==
    H_Built =>
        LET k == H_DecidingCheck
        IN  /\ H_ReasonTexts = SubSeq(H_PassTexts, 1, Min(k - 1, 4))
                                  \o <<H_FinalTexts[k]>>
            /\ k = 1 => Len(H_Result.reasons) = 1
            /\ k = 6 => (H_Result.decision = "ACCEPT"
                         /\ Len(H_Result.reasons) = 5)

\* The contradiction check decides, after four passing checks.
C29_Witness ==
    /\ H_Built
    /\ H_DecidingCheck = 5
    /\ H_Result.decision = "REVISE"
    /\ Len(H_Result.reasons) = 5


\* ------------------------------- the refined request (engine.py 115-130)
\* The critiques of the session under revision, and the longest list of
\* flaws, contradictions or suggestions one of them carries.
MaxSummarized == 2
MaxItems == 4

Items(name, n) == [i \in 1..n |-> name \o " " \o ToString(i)]

\* The critiques of a session sent back for revision: valid and novel,
\* each with no, exactly the summarized number of, or more items per list.
RefineCritique(model, nf, nc, ns) ==
    [Critique("sid-pos-0", model, 90, Some(80), Items("Contradiction", nc))
        EXCEPT !.identified_flaws = Items("Flaw", nf),
               !.suggestions = Items("Suggestion", ns)]

\* What a critique list of n critiques is built from: the three item
\* counts of each critique.
RefineCounts(n) ==
    [1..n -> {0, 3, MaxItems} \X {0, 2, MaxItems} \X {0, 2, MaxItems}]

RefineCritiques(n, f) ==
    [i \in 1..n |-> RefineCritique(TribunalModels[i], f[i][1], f[i][2],
                                   f[i][3])]

\* The requests process_problem may have been called with.
RefineRequests ==
    {original_request,
     [problem |-> <<"Problem">>, domains |-> <<"consciousness">>,
      constraints |-> <<"Constraint 1">>,
      existing_solutions |-> <<"Solution 1">>, temperature |-> 1000]}

\* The session process_problem holds after a consensus on the critiques
\* cs of its first position.
RefineSession(cs) ==
    [DebateSession(session_id,
                   Position("sid-pos-0", min_testable_predictions),
                   DefaultMaxIterations)
        EXCEPT !.critiques = cs,
               !.final_consensus =
                   Some(build_consensus(
                       Position("sid-pos-0", min_testable_predictions), cs))]

\* _iterate_position is entered with a session whose consensus is REVISE
\* and whose budget is not used up.
RefineInit ==
    /\ HarnessIdle
    /\ EngineIdle
    /\ max_iterations = 0
    /\ VariationsIdle
    /\ ExploreIdle
    /\ ClientIdle
    /\ SchemaIdle
    /\ WebIdle
    /\ TextIdle
    /\ r_request \in {Some(r) : r \in RefineRequests}
    /\ \E n \in 1..MaxSummarized :
          \E f \in RefineCounts(n) :
             LET s == RefineSession(RefineCritiques(n, f))
             IN  /\ should_iterate(Get(s.final_consensus).decision, s)
                 /\ r_session = Some(s)
    /\ r_refined = None

\* _iterate_position up to its await of the Generator (lines 115-130).
IteratePosition ==
    /\ r_refined = None
    /\ LET s  == Get(r_session)
           s1 == [s EXCEPT !.iterations = s.iterations + 1]
       IN  /\ r_session' = Some(s1)
           /\ r_refined' = Some(refined_request(Get(r_request), s1))
    /\ UNCHANGED r_request
    /\ UNCHANGED outside_refine

RefineNext == IteratePosition

RefineSpec == RefineInit /\ [][RefineNext]_vars


\* ----------------------------------------------------------------------
\* Properties of the refined request (checked under RefineSpec)
R_Done == r_refined # None
R_Refined == Get(r_refined)
R_Original == Get(r_request)
R_Critiques == Get(r_session).critiques
R_Shown(items, limit) == IF Len(items) < limit THEN Len(items) ELSE limit
R_Block(items, limit) == IF items = <<>> THEN 0 ELSE 1 + R_Shown(items, limit)
R_LinesOf(c) ==
    R_Block(c.identified_flaws, 3) + R_Block(c.contradictions_found, 2)
        + R_Block(c.suggestions, 2)
R_Total == SeqSum([i \in 1..Len(R_Critiques) |-> R_LinesOf(R_Critiques[i])])
R_Summary ==
    SubSeq(R_Refined.problem, Len(R_Original.problem) + 6,
           Len(R_Refined.problem))
R_InSummary(summary, item) ==
    \E k \in 1..Len(summary) : summary[k] = "  * " \o item

\* C30: the refined problem is the original problem, the rejected
\* position's statement and the critique summary under their headings; the
\* summary has, per critique, a heading and the first 3 flaws, 2
\* contradictions and 2 suggestions and nothing of the rest; the two fixed
\* constraints follow the request's own; the temperature is nine tenths
\* of the original; domains and prior solutions are the original ones.
C30_RefinedRequest ==
    R_Done =>
        /\ SubSeq(R_Refined.problem, 1, Len(R_Original.problem) + 5)
              = R_Original.problem
                   \o <<"", "PREVIOUS ATTEMPT:",
                        Get(r_session).position.position, "",
                        "CRITIQUES TO ADDRESS:">>
        /\ Len(R_Summary) = (IF R_Total = 0 THEN 1 ELSE R_Total)
        /\ R_Total = 0 => R_Summary = <<"No critiques available">>
        /\ \A i \in 1..Len(R_Critiques) :
              LET c == R_Critiques[i]
                  summary == R_Summary
              IN  /\ \A j \in 1..Len(c.identified_flaws) :
                        R_InSummary(summary, c.identified_flaws[j]) <=> j <= 3
                  /\ \A j \in 1..Len(c.contradictions_found) :
                        R_InSummary(summary, c.contradictions_found[j]) <=> j <= 2
                  /\ \A j \in 1..Len(c.suggestions) :
                        R_InSummary(summary, c.suggestions[j]) <=> j <= 2
        /\ R_Refined.constraints
              = R_Original.constraints
                   \o <<"Address all critiques from previous iteration",
                        "Maintain strengths while fixing weaknesses">>
        /\ R_Refined.temperature * 10 = R_Original.temperature * 9
        /\ R_Refined.domains = R_Original.domains
        /\ R_Refined.existing_solutions = R_Original.existing_solutions

\* A request with constraints, domains and prior solutions of its own,
\* revised on a critique with more flaws, contradictions and suggestions
\* than the summary shows.
C30_Witness ==
    /\ R_Done
    /\ R_Original.constraints # <<>>
    /\ R_Original.domains # <<>>
    /\ \E i \in 1..Len(R_Critiques) :
          /\ Len(R_Critiques[i].identified_flaws) > 3
          /\ Len(R_Critiques[i].contradictions_found) > 2
          /\ Len(R_Critiques[i].suggestions) > 2


\* --------------------------- the Generator's parser (core/generation.py)
\* The longest response parsed, in lines.
MaxLines == 4

\* response[:500]
statement_limit == 500

\* A line of the response: the section keywords its lower-cased text
\* contains, its stripped text as a list marker followed by the rest, and
\* the number of characters of the raw line.
Line(keys, marker, core, chars) ==
    [keys |-> keys, marker |-> marker, core |-> core, chars |-> chars]

ParserLines ==
    {Line({"position statement"}, "", "Position Statement:", 19),
     Line({"premise"}, "", "Key premises:", 13),
     Line({"prediction"}, "", "Testable Predictions:", 21),
     Line({"paradox"}, "- ", "This avoids the paradox", 25),
     Line({"position statement", "prediction"}, "",
          "Position statement and predictions", 34),
     Line({}, "", "", 0),
     Line({}, "-", "", 1),
     Line({}, "- ", "Item A", 8),
     Line({}, "", "Consciousness is fundamental", 300)}

SectionNames ==
    {"position_statement", "assumptions", "predictions", "contradictions"}

\* The if/elif chain of lines 95-114: the section a line opens, "" if none.
header_of(line) ==
    IF "position statement" \in line.keys THEN "position_statement"
    ELSE IF "assumptions" \in line.keys \/ "premise" \in line.keys
    THEN "assumptions"
    ELSE IF "prediction" \in line.keys THEN "predictions"
    ELSE IF "contradiction" \in line.keys \/ "paradox" \in line.keys
    THEN "contradictions"
    ELSE ""

\* sections[current_section] = current_content, when a section is open.
close_section(sections, cur, content) ==
    IF cur # "" THEN [sections EXCEPT ![cur] = Some(content)] ELSE sections

\* A loop in which a repeated header goes on filling its section's bucket.
RECURSIVE extract_loop_appends(_, _, _, _)
extract_loop_appends(lines, cur, content, sections) ==
    IF lines = <<>> THEN close_section(sections, cur, content)
    ELSE LET line == Head(lines)
             h == header_of(line)
             closed == close_section(sections, cur, content)
         IN  IF h # ""
             THEN extract_loop_appends(Tail(lines), h,
                      IF closed[h] # None THEN Get(closed[h]) ELSE <<>>,
                      closed)
             ELSE extract_loop_appends(Tail(lines), cur,
                      IF cur # "" THEN Append(content, line) ELSE content,
                      sections)

\* The loop of lines 92-120 over the remaining lines.
RECURSIVE extract_loop(_, _, _, _)
extract_loop(lines, cur, content, sections) ==
    IF lines = <<>> THEN close_section(sections, cur, content)
    ELSE LET line == Head(lines)
             h == header_of(line)
         IN  IF h # ""
             THEN extract_loop(Tail(lines), h, <<>>,
                               close_section(sections, cur, content))
             ELSE extract_loop(Tail(lines), cur,
                      IF cur # "" THEN Append(content, line) ELSE content,
                      sections)

\* line.strip()
stripped(line) == line.marker \o line.core

\* Lines 130-134: empty lines and bare markers are dropped, the list
\* marker of the others is stripped.
clean_items(content) ==
    LET kept == SelectSeq(content,
                    LAMBDA l : stripped(l) # "" /\ stripped(l) \notin {"-", "*"})
    IN  [i \in 1..Len(kept) |-> kept[i].core]

\* ' '.join(content), kept as the list of the joined pieces.
joined(content) == [i \in 1..Len(content) |-> stripped(content[i])]

\* GenerationEngine._extract_sections: per section None when the dict has
\* no such key, else its cleaned value.
extract_sections(response) ==
    LET raw == extract_loop(response, "", <<>>, [k \in SectionNames |-> None])
    IN  [k \in SectionNames |->
            IF raw[k] = None THEN None
            ELSE IF k = "position_statement" THEN Some(joined(Get(raw[k])))
            ELSE Some(clean_items(Get(raw[k])))]

\* len(response): the lines and the newlines between them.
RawLen(response) ==
    SeqSum([i \in 1..Len(response) |-> response[i].chars]) + Len(response) - 1

\* The length of response[:500], the whole response.
raw_prefix_whole(response) == RawLen(response)

\* The length of response[:500].
raw_prefix(response) == Min(statement_limit, RawLen(response))

\* sections.get(key, [])
section_or_empty(sections, key) ==
    IF sections[key] = None THEN <<>> ELSE Get(sections[key])

\* GenerationEngine._parse_generation_response: the statement is the
\* joined section, or the first characters of the raw response.
parsed_position(response, request) ==
    LET sections == extract_sections(response)
    IN  [problem |-> request.problem,
         position |->
            IF sections["position_statement"] # None
            THEN [section |-> sections["position_statement"], raw |-> None]
            ELSE [section |-> None, raw |-> Some(raw_prefix(response))],
         domains |-> IF request.domains # <<>> THEN request.domains
                     ELSE <<"metaphysics">>,
         assumptions |-> section_or_empty(sections, "assumptions"),
         testable_predictions |-> section_or_empty(sections, "predictions"),
         contradictions |-> section_or_empty(sections, "contradictions")]

\* response.split('\n') is never empty.
ParserInit ==
    /\ HarnessIdle
    /\ EngineIdle
    /\ max_iterations = 0
    /\ VariationsIdle
    /\ ExploreIdle
    /\ ClientIdle
    /\ SchemaIdle
    /\ WebIdle
    /\ RefineIdle
    /\ \E n \in 1..MaxLines : g_response \in [1..n -> ParserLines]
    /\ g_position = None
    /\ s_text = <<>>
    /\ s_result = None

\* generate_position parses the response it got.
ParseGenerationResponse ==
    /\ g_position = None
    /\ g_position' = Some(parsed_position(g_response, original_request))
    /\ UNCHANGED g_response
    /\ UNCHANGED outside_parser

ParserNext == ParseGenerationResponse

ParserSpec == ParserInit /\ [][ParserNext]_vars


\* ----------------------------------------------------------------------
\* Properties of the parser (checked under ParserSpec)
G_Parsed == g_position # None
G_Position == Get(g_position)
G_HasKey(keys) ==
    \E i \in 1..Len(g_response) : g_response[i].keys \cap keys # {}
G_Chars ==
    SeqSum([i \in 1..Len(g_response) |-> g_response[i].chars])
        + Len(g_response) - 1

\* C31: every response is parsed into a position; a list section none of
\* whose keywords occurs in any line is empty; without a line containing
\* "position statement" the statement is the first 500 characters of the
\* raw response (all of it when it is shorter).
C31_ParserTotalWithFallbacks ==
    G_Parsed =>
        /\ ~G_HasKey({"position statement"}) =>
              G_Position.position
                 = [section |-> None,
                    raw |-> Some(IF G_Chars > 500 THEN 500 ELSE G_Chars)]
        /\ ~G_HasKey({"assumptions", "premise"}) =>
              G_Position.assumptions = <<>>
        /\ ~G_HasKey({"prediction"}) => G_Position.testable_predictions = <<>>
        /\ ~G_HasKey({"contradiction", "paradox"}) =>
              G_Position.contradictions = <<>>

\* A response of more than 500 characters without any section header.
C31_Witness ==
    /\ G_Parsed
    /\ G_Chars > 500
    /\ ~G_HasKey({"position statement", "assumptions", "premise",
                  "prediction", "contradiction", "paradox"})
    /\ G_Position.position.raw = Some(500)

G_IsHeader(i, k) == header_of(g_response[i]) = k
G_Opened(k) == \E i \in 1..Len(g_response) : G_IsHeader(i, k)
G_LastHeader(k) ==
    CHOOSE i \in 1..Len(g_response) :
        /\ G_IsHeader(i, k)
        /\ \A j \in (i + 1)..Len(g_response) : ~G_IsHeader(j, k)
G_BodyEnd(i) ==
    IF \E j \in (i + 1)..Len(g_response) : header_of(g_response[j]) # ""
    THEN (CHOOSE j \in (i + 1)..Len(g_response) :
             /\ header_of(g_response[j]) # ""
             /\ \A m \in (i + 1)..(j - 1) : header_of(g_response[m]) = "") - 1
    ELSE Len(g_response)
G_Body(k) ==
    IF G_Opened(k)
    THEN SubSeq(g_response, G_LastHeader(k) + 1, G_BodyEnd(G_LastHeader(k)))
    ELSE <<>>

\* C37: each section is made of the lines between the last line that is
\* a header of that section and the next line that is a header of any
\* section: header lines, lines before the first header and the bodies of
\* earlier headers of the same section are not in it.
C37_LastHeaderWins ==
    G_Parsed =>
        /\ G_Opened("position_statement") =>
              G_Position.position.section
                 = Some(joined(G_Body("position_statement")))
        /\ G_Position.assumptions = clean_items(G_Body("assumptions"))
        /\ G_Position.testable_predictions
              = clean_items(G_Body("predictions"))
        /\ G_Position.contradictions = clean_items(G_Body("contradictions"))

\* A predictions header with an item, then a second predictions header
\* with nothing after it: the item is lost.
C37_Witness ==
    /\ G_Parsed
    /\ \E i, j \in 1..Len(g_response) :
          /\ i + 1 < j
          /\ G_IsHeader(i, "predictions")
          /\ G_IsHeader(j, "predictions")
          /\ stripped(g_response[i + 1]) = "- Item A"
    /\ G_Position.testable_predictions = <<>>


\* ------------------------------ score extraction (core/tribunal.py 147-169)
\* The longest evaluator response scored, in tokens.
MaxTokens == 3

\* A piece of the response by what the three patterns find in it: the
\* value of a match of \b0?\.\d+\b in hundredths, the two numbers of a
\* match of (\d+)/(\d+), the number of a match of (\d+)%.
Token(decimal, fraction, percent) ==
    [decimal |-> decimal, fraction |-> fraction, percent |-> percent]

\* "consistent", "0.85", "1.5" (the pattern finds ".5"), "7/10", "12/10",
\* "3/0", "70%", "150%".
ScoreTokens ==
    {Token(None, None, None),
     Token(Some(85), None, None),
     Token(Some(50), None, None),
     Token(None, Some(<<7, 10>>), None),
     Token(None, Some(<<12, 10>>), None),
     Token(None, Some(<<3, 0>>), None),
     Token(None, None, Some(70)),
     Token(None, None, Some(150))}

\* re.search: the first token in which the pattern matches, None if none.
first_match(text, field) ==
    LET hits == SelectSeq(text, LAMBDA t : t[field] # None)
    IN  IF hits = <<>> THEN None ELSE Some(Get(hits[1][field]))

\* The default score when no pattern matches.
default_score == 50

\* PhilosophicalTribunal._extract_score, in hundredths: the value
\* returned, or the exception float(num) / float(denom) raises.
extract_score(text) ==
    LET decimal == first_match(text, "decimal")
        fraction == first_match(text, "fraction")
        percent == first_match(text, "percent")
    IN  IF decimal # None THEN [raised |-> FALSE, score |-> Get(decimal)]
        ELSE IF fraction # None
        THEN IF Get(fraction)[2] = 0 THEN [raised |-> TRUE, score |-> 0]
             ELSE [raised |-> FALSE,
                   score |-> (Get(fraction)[1] * 100) \div Get(fraction)[2]]
        ELSE IF percent # None THEN [raised |-> FALSE, score |-> Get(percent)]
        ELSE [raised |-> FALSE, score |-> default_score]

\* PhilosophicalTribunal._check_logic after its await: the score is
\* extracted and the Critique constructed with it.
check_logic(text) ==
    LET e == extract_score(text)
        c == construct_critique(e.score, None)
    IN  IF e.raised
        THEN [error |-> "ZeroDivisionError", score |-> None, critique |-> None]
        ELSE [error |-> IF c.error THEN "ValidationError" ELSE "",
              score |-> Some(e.score), critique |-> c.critique]

ScoreInit ==
    /\ HarnessIdle
    /\ EngineIdle
    /\ max_iterations = 0
    /\ VariationsIdle
    /\ ExploreIdle
    /\ ClientIdle
    /\ SchemaIdle
    /\ WebIdle
    /\ RefineIdle
    /\ g_response = <<>>
    /\ g_position = None
    /\ \E n \in 0..MaxTokens : s_text \in [1..n -> ScoreTokens]
    /\ s_result = None

\* The logic evaluator receives its response.
CheckLogic ==
    /\ s_result = None
    /\ s_result' = Some(check_logic(s_text))
    /\ UNCHANGED s_text
    /\ UNCHANGED outside_score

ScoreNext == CheckLogic

ScoreSpec == ScoreInit /\ [][ScoreNext]_vars

\* ----------------------------------------------------------------------
\* Properties of the score extraction (checked under ScoreSpec)
S_Scored == s_result # None
S_Result == Get(s_result)

\* C32: every evaluator response gets a score between 0 and 1 (no error).
C32_Original ==
    S_Scored =>
        /\ S_Result.error = ""
        /\ S_Result.score # None
        /\ 0 <= Get(S_Result.score) /\ Get(S_Result.score) <= 100


\* ----------------------------------------------------------------------
\* Validity and agreement (checked under ConsensusSpec)
H_FirstThreePass == H_AllValid /\ ~H_NoveltyBelow /\ ~H_TooFewPredictions
H_LastReason == H_Result.reasons[Len(H_Result.reasons)].text

\* C34: a unanimously valid critique list has as many agreeing critiques
\* as critiques; so, after three passing checks, the coherence check
\* decides REVISE exactly for lists of 1 or 2 critiques, and ACCEPT needs
\* at least 3 critiques.
C34_UnanimityImpliesFullAgreement ==
    H_Built =>
        /\ H_Result.unanimous_validity => H_Result.coherence_agreement = H_Len
        /\ H_FirstThreePass =>
              ((/\ H_Result.decision = "REVISE"
                /\ H_LastReason = "Insufficient coherence agreement: {}/{} models")
                  <=> H_Len \in {1, 2})
        /\ H_Result.decision = "ACCEPT" => H_Len >= 3

\* Two valid critiques, three passing checks, and REVISE for want of a
\* third critique.
C34_Witness ==
    /\ H_Built
    /\ H_FirstThreePass
    /\ H_Len = 2
    /\ H_Result.coherence_agreement = 2
    /\ H_Result.decision = "REVISE"


\* ------------------------- the shipped panels (tribunal.py, four_sages.py)
\* The scores _extract_score and _extract_score_from_text hand to a
\* Critique that is constructed.
PanelScores == {60, 70, 90}

\* A contradiction finder that reports full consistency whatever it finds.
contradiction_consistency_full(contradictions) == 100

\* _find_contradictions, line 94: 1.0 if not contradictions else 0.5
contradiction_consistency(contradictions) ==
    IF contradictions = <<>> THEN 100 ELSE 50

\* run_tribunal's four critiques for the logic score, the contradictions
\* found and the novelty score (tribunal.py 67-74, 90-97, 114-122, 138-145).
ShippedTribunal(pid, logic, contradictions, novelty) ==
    <<Critique(pid, TribunalModels[1], logic, None, <<>>),
      Critique(pid, TribunalModels[2],
               contradiction_consistency(contradictions), None, contradictions),
      Critique(pid, TribunalModels[3], 80, Some(novelty), <<>>),
      Critique(pid, TribunalModels[4], 80, None, <<>>)>>

\* The critique of sage i for the scores it extracts (four_sages.py
\* 99-107, 139-146, 178-185, 217-224): none sets contradictions_found.
ShippedSage(pid, i, rigor, originality) ==
    CASE i = 1 -> Critique(pid, SageModels[1], rigor, Some(originality), <<>>)
      [] i = 2 -> Critique(pid, SageModels[2], rigor, None, <<>>)
      [] OTHER -> Critique(pid, SageModels[i], 80, None, <<>>)

\* refine_position's result when the sages in `present` succeed.
RECURSIVE ShippedCouncil(_, _, _, _, _)
ShippedCouncil(pid, i, present, rigor, originality) ==
    IF i > Len(SageModels) THEN <<>>
    ELSE (IF i \in present
          THEN <<ShippedSage(pid, i, rigor, originality)>> ELSE <<>>)
         \o ShippedCouncil(pid, i + 1, present, rigor, originality)

\* The critiques of one cycle of process_problem (cloud TRUE) or of one
\* variant of explore_problem_space (cloud FALSE).
ShippedInit ==
    /\ test_position \in {Position("sid-pos-0", n) : n \in 0..MaxPredictions}
    /\ \E logic \in PanelScores, novelty \in PanelScores,
          contradictions \in TestContradictions, cloud \in BOOLEAN :
          LET local == ShippedTribunal("sid-pos-0", logic, contradictions,
                                       novelty)
          IN  IF cloud
              THEN \E present \in SUBSET (1..Len(SageModels)),
                      rigor \in PanelScores, originality \in PanelScores :
                      test_critiques
                         = extend_critiques(local,
                              ShippedCouncil("sid-pos-0", 1, present, rigor,
                                             originality))
              ELSE test_critiques = local
    /\ consensus = None
    /\ EngineIdle
    /\ max_iterations = 0
    /\ VariationsIdle
    /\ ExploreIdle
    /\ OutsideCoreIdle

ShippedNext == BuildConsensus

ShippedSpec == ShippedInit /\ [][ShippedNext]_vars

\* ----------------------------------------------------------------------
\* Properties of the shipped panels (checked under ShippedSpec)
\* C33: on the critiques the shipped panels produce the decision is never
\* REVISE, so no revision cycle is entered: a reported contradiction
\* comes with a contradiction finder's consistency of 0.5, which makes
\* the validity check fail, and with four or more critiques unanimity
\* meets the required agreement.
C33_ShippedPanelsNeverRevise ==
    H_Built =>
        /\ H_Len >= 4
        /\ H_Result.decision # "REVISE"
        /\ ~should_iterate(H_Result.decision,
                           DebateSession(session_id, test_position,
                                         DefaultMaxIterations))
        /\ H_SomeContradiction =>
              (~H_Result.unanimous_validity /\ H_Result.decision = "REJECT")
        /\ H_Result.unanimous_validity =>
              H_Result.coherence_agreement >= Max(3, (3 * H_Len) \div 4)

\* A contradiction is reported on a position that passes every other
\* check, with the council taking part: REJECT.
C33_Witness ==
    /\ H_Built
    /\ H_SomeContradiction
    /\ H_Len > 4
    /\ \A i \in 1..H_Len :
          i # ContradictionFinder
             => test_critiques[i].logical_consistency >= LogicalThreshold
    /\ ~H_NoveltyBelow /\ ~H_TooFewPredictions
    /\ H_Result.decision = "REJECT"


\* ----------------------------------------------------------------------
\* The revised requests of process_problem (checked under Spec)
E_Revising == pc = "I_generate"
E_Request == Get(gen_request)
E_Occurrences(lines, line) ==
    Cardinality({i \in 1..Len(lines) : lines[i] = line})
E_EarlierStatements ==
    {"Position statement " \o ToString(k) : k \in 1..(gen_calls - 2)}

\* C36: the request of every revision is built from the original request:
\* its temperature is nine tenths of the original one, its constraints are
\* the original ones and the two fixed ones, its problem starts with the
\* original problem followed by the statement of the position just
\* rejected, and carries no statement of an earlier position and no
\* second copy of the headings.
C36_RevisedFromOriginal ==
    E_Revising =>
        /\ E_Request.temperature * 10 = original_request.temperature * 9
        /\ E_Request.constraints
              = original_request.constraints
                   \o <<"Address all critiques from previous iteration",
                        "Maintain strengths while fixing weaknesses">>
        /\ E_Request.domains = original_request.domains
        /\ E_Request.existing_solutions = original_request.existing_solutions
        /\ SubSeq(E_Request.problem, 1, Len(original_request.problem) + 5)
              = original_request.problem
                   \o <<"", "PREVIOUS ATTEMPT:",
                        "Position statement " \o ToString(gen_calls - 1), "",
                        "CRITIQUES TO ADDRESS:">>
        /\ E_Session.position.position
              = "Position statement " \o ToString(gen_calls - 1)
        /\ E_Occurrences(E_Request.problem, "PREVIOUS ATTEMPT:") = 1
        /\ E_Occurrences(E_Request.problem, original_request.problem[1]) = 1
        /\ \A i \in 1..Len(E_Request.problem) :
              E_Request.problem[i] \notin E_EarlierStatements

\* The request of the second revision.
C36_Witness ==
    /\ E_Revising
    /\ E_Session.iterations = 2
    /\ gen_calls = 3
    /\ E_Request.temperature = 630


\* ----------------------------------------------------------------------
\* The converged flag of process_problem (checked under Spec)
E_Converged == session # None /\ Get(session).converged
E_NoCall ==
    /\ gen_calls' = gen_calls
    /\ gen_request' = gen_request
    /\ evaluators' = evaluators
    /\ sages' = sages

\* C38: a session whose converged flag is set has a final consensus, and
\* from then on the flag stays set, the session is not changed, and no
\* Generator call, evaluator task or sage task is started.
C38_ConvergedFinal ==
    /\ [](E_Converged => Get(session).final_consensus # None)
    /\ [][E_Converged => (E_NoCall /\ session' = session)]_vars
    /\ [](E_Converged => [](E_Converged /\ pc = "returned"))

\* A session that converged after a revision.
C38_Witness ==
    /\ E_Converged
    /\ Get(session).iterations >= 1
    /\ pc = "returned"


\* ----------------------------------------------------------------------
\* One call of the engine: process_problem or explore_problem_space
\* (engine.py 35-102 and 189-249).  use_cloud_apis is the argument of the
\* call; process_problem takes it at ProcessProblem, explore_problem_space
\* is given it at the start.  settings.max_iterations has its largest
\* value, under which process_problem returns after 0..MaxSetting
\* revisions; Spec covers the smaller settings.
CallsInit ==
    /\ HarnessIdle
    /\ pc = "idle"
    /\ use_cloud_apis \in BOOLEAN
    /\ gen_request = None
    /\ session = None
    /\ evaluators = <<>>
    /\ sages = <<>>
    /\ failure = None
    /\ gen_calls = 0
    /\ decisions = <<>>
    /\ max_iterations = MaxSetting
    /\ VariationsIdle
    /\ ExploreIdle
    /\ OutsideCoreIdle

ProcessProblemCall ==
    /\ VariationsIdle
    /\ ExploreIdle
    /\ Next

ExploreProblemSpaceCall ==
    /\ pc = "idle"
    /\ ExploreNext

CallsNext ==
    \/ ProcessProblemCall
    \/ ExploreProblemSpaceCall

CallsSpec == CallsInit /\ [][CallsNext]_vars

A_Current(s) ==
    /\ s.final_consensus # None
    /\ Get(s.final_consensus).position_id = s.position.id
    /\ Get(s.final_consensus).testable_predictions_count
          = Len(s.position.testable_predictions)
    /\ \A i \in 1..Len(s.critiques) :
          s.critiques[i].position_id = s.position.id

\* C35: in the session process_problem returns, and in every session
\* explore_problem_space returns, the final consensus carries the id and
\* the prediction count of the session's position and every critique
\* carries that id.
C35_SessionRefersToCurrentPosition ==
    /\ E_Returned => A_Current(E_Session)
    /\ X_Returned => \A k \in 1..Len(X_Result) : A_Current(X_Result[k])

\* process_problem returned after two revisions with cloud critiques in
\* the session.
C35_Witness ==
    /\ E_Returned
    /\ E_Session.iterations = 2
    /\ Len(E_Session.critiques) > Len(TribunalModels)
    /\ E_Session.position.id = PositionId(session_id, 2)

A_NoSage ==
    /\ sages = <<>>
    /\ pc \notin {"P_cloud", "I_cloud"}

A_LocalOnly(s) ==
    \A i \in 1..Len(s.critiques) :
       \E j \in 1..Len(TribunalModels) : s.critiques[i].model = TribunalModels[j]

\* C39: while process_problem runs with use_cloud_apis false no sage task
\* exists and the engine is never in a cloud pass, and its session holds
\* critiques of the local evaluators only; the same holds all through
\* explore_problem_space, whichever use_cloud_apis it was given.
C39_NoCloudCallWhenDisabled ==
    /\ (pc # "idle" /\ ~use_cloud_apis) =>
          /\ A_NoSage
          /\ session # None => A_LocalOnly(E_Session)
    /\ (v_pc # "idle" \/ x_pc # "idle") =>
          /\ A_NoSage
          /\ pc = "idle"
          /\ \A k \in 1..Len(x_sessions) : A_LocalOnly(x_sessions[k])

\* process_problem returned after a revision with the cloud pass off.
C39_Witness ==
    /\ E_Returned
    /\ ~use_cloud_apis
    /\ E_Session.iterations >= 1

\* explore_problem_space returned two sessions although it was given
\* use_cloud_apis = true.
A_ExploreGivenCloud ==
    /\ X_Returned
    /\ use_cloud_apis
    /\ Len(X_Result) = 2


\* ----------------------------------------------------------------------
\* The result of explore_problem_space (checked under ExploreSpec)
X_Raised == x_pc = "raised"
X_PanelFailed == \E k \in 1..Len(x_panels) : x_panels[k] = "failed"
X_Places(i) ==
    {k \in 1..Len(X_Result) : X_Result[k].id = ExploreSessionId(i)}
X_Variant(i) == [Get(v_positions)[i] EXCEPT !.id = PositionId(ExploreSessionId(i), 0)]

\* C40: explore_problem_space returns only for num_variations >= 1, and
\* then exactly num_variations sessions, the session of every generated
\* variant at exactly one place of the list and holding that variant; it
\* raises only if a generation or a panel failed or num_variations is 0,
\* and for num_variations = 0 it never returns a list.
C40_ExploreReturnsEveryVariant ==
    /\ X_Returned =>
          /\ num_variations >= 1
          /\ ~V_SomeFailed /\ ~X_PanelFailed
          /\ Len(X_Result) = num_variations
          /\ \A i \in 1..num_variations :
                /\ Cardinality(X_Places(i)) = 1
                /\ \A k \in X_Places(i) : X_Result[k].position = X_Variant(i)
    /\ X_Raised => (V_SomeFailed \/ X_PanelFailed \/ num_variations = 0)
    /\ (num_variations = 0 /\ v_pc # "idle") =>
          /\ x_result = None
          /\ ~X_Returned
          /\ v_pc = "returned" => (x_pc = "idle" \/ X_Raised)

\* Three variants were returned in an order that differs from the order of
\* generation.
C40_Witness ==
    /\ X_Returned
    /\ num_variations = 3
    /\ X_Result[1].id # ExploreSessionId(1)
    /\ X_Places(1) # {}

\* explore_problem_space raised for num_variations = 0 with no failed call.
X_RaisedOnZero ==
    /\ X_Raised
    /\ num_variations = 0
    /\ ~V_SomeFailed
    /\ ~X_PanelFailed

====
